---- MODULE Spec2Model ----
(***************************************************************************)
(* Model of grendeloz/ngs: the GFF3 Feature / Features interval engine     *)
(* (package gff3) and the spaced-seed indexer (package genome).            *)
(*                                                                         *)
(* The specifications share the variables below:                          *)
(*   SpecMerge    - Feature.Merge on three Features                        *)
(*   SpecPM       - PrudentMerge on a pair of Features                     *)
(*   SpecOverlap  - PrudentMerge, then PrudentMerge of a returned Feature  *)
(*                  with a third Feature                                   *)
(*   Spec         - the Features collection (Sort, CheckSorted,            *)
(*                  Consolidate, PrudentMergeByType), any SeqIds           *)
(*   SpecCons     - the Features collection on one SeqId (Sort,            *)
(*                  CheckSorted, Consolidate)                              *)
(*   SpecEdit     - the collection with the operations that add and        *)
(*                  remove Features                                        *)
(*   SpecLoop     - PrudentMergeByType, one pass of its loop at a time;    *)
(*                  SpecLoopLive with fairness                             *)
(*   SpecSeed     - Genome.AddFastaFile, Genome.NewSeed (addSequence +     *)
(*                  applySeed), WriteAsGob and SeedFromGob                 *)
(*   SpecLine     - NewFeatureFromLine and Feature.String on the           *)
(*                  characters of a line                                   *)
(*   SpecView     - Features.BySeqId and Features.Clone on objects         *)
(*   SpecSelect   - KeepBySeqId, DeleteBySeqId and ApplySelector           *)
(*   SpecSelector - selector.NewFromString, NewFromStrings and String      *)
(*   SpecRead     - OpenFastaFile / OpenFastqFile and Next, ReadAll        *)
(*   SpecScan     - gff3.NewFromScanner on the lines of an input           *)
(*   SpecInsert   - insertFeatures                                         *)
(*   SpecTree     - Gff3.NewTree, Tree.NodeById and TreeNode.Features      *)
(*                                                                         *)
(* Strings that the code splits and joins on "," (attribute values) are    *)
(* modelled as the sequence of their comma-separated tokens: the empty     *)
(* string is <<"">> (strings.Split("", ",") returns one empty token) and   *)
(* "a,b" is <<"a","b">>.                                                   *)
(***************************************************************************)
EXTENDS Integers, Sequences, FiniteSets, TLC

VARIABLES
    A, B, C,      \* three *Feature objects
    out,          \* the []*Feature returned by the last PrudentMerge
    feats,        \* Features.Features of the collection
    isSorted,     \* Features.IsSorted
    genome,       \* the Genome NewSeed is called on: UUID and Sequences
    mask,         \* the mask string given to NewSeed, as a sequence of characters
    seed,         \* the Seed built by NewSeed
    op,           \* the last operation called
    err,          \* what it returned: "nil", an error kind, or "panic"
    pre,          \* the state the last operation was called in
    hist,         \* SpecMerge: the Merge calls made so far, <<receiver, operand, error>>
    orig,         \* SpecMerge: A, B and C as they were created
    meetGap,      \* interval.Compare: MeetsB is a.High() + meetGap = b.Low()
    disk,         \* the gob files written: file name -> encoded Seed
    loaded,       \* the Seed SeedFromGob returned
    pmKeepers,    \* PrudentMergeByType, while it runs: its keepers list
    pmCandidates, \* PrudentMergeByType, while it runs: its candidates list
    fileLines,    \* the lines of the file being read
    reader        \* the FastaFile or FastqFile reading it

vars ==
    << A, B, C, out, feats, isSorted, genome, mask, seed, op, err, pre, hist, orig,
       meetGap, disk, loaded, pmKeepers, pmCandidates,
                    fileLines, reader >>

(***************************************************************************)
(* Bounds                                                                  *)
(***************************************************************************)
MaxPos == 4          \* Start and End of the operands of Merge and PrudentMerge: 1..MaxPos
MaxCoord == 3        \* Start and End of the Features of a collection: 1..MaxCoord
MaxFeatures == 3     \* longest Feature list a collection starts with
MaxSeqLen == 3       \* longest base string of a Genome sequence
MaxSeqLines == 2     \* most lines of a FASTA file, and of the bases of one record

(***************************************************************************)
(* Strings.  sort.Strings orders by bytes; TokenOrder lists every string   *)
(* the model uses in that order.                                           *)
(***************************************************************************)
TokenOrder ==
    << "", "+", "-", ".", "0", "1", "2", "5", "SO:0000110", "a", "b", "c", "d",
       "e", "ensembl", "exon", "gene", "grz", "grz-merge", "havana", "n" >>

Rank(s) == CHOOSE i \in 1..Len(TokenOrder) : TokenOrder[i] = s

\* sort.Strings applied to the keys of a map: the set in byte order
SortStrings(S) == SelectSeq(TokenOrder, LAMBDA t : t \in S)

\* the set of elements of a sequence
Range(s) == { s[i] : i \in 1..Len(s) }

\* strings.Split(s, ","): the tokens of the string
Split(s) == s

\* strings.Join(list, ","): no token gives the empty string
Join(list) == IF list = << >> THEN << "" >> ELSE list

\* the token x is a proper prefix of the token y
ProperPrefix(x, y) ==
    \/ x = "" /\ y # ""
    \/ << x, y >> \in { << "e", "ensembl" >>, << "e", "exon" >>, << "grz", "grz-merge" >> }

\* x is a proper prefix of y and the byte of y after x is below the comma
BelowComma(x, y) == x = "" /\ y = "+"

\* byte order of two strings that may hold commas, each the list of its tokens
RECURSIVE StringLess(_, _)
StringLess(s, t) ==
    LET x == s[1]
        y == t[1]
    IN  IF x = y
        THEN IF Len(s) = 1 THEN Len(t) > 1
             ELSE IF Len(t) = 1 THEN FALSE
             ELSE StringLess(Tail(s), Tail(t))
        ELSE IF ProperPrefix(x, y) THEN Len(s) = 1 \/ ~BelowComma(x, y)
        ELSE IF ProperPrefix(y, x) THEN Len(t) > 1 /\ BelowComma(y, x)
        ELSE Rank(x) < Rank(y)

\* sort.Strings applied to keys that may hold commas, then strings.Join(keys, ",")
RECURSIVE JoinSorted(_)
JoinSorted(S) ==
    IF S = {} THEN << >>
    ELSE LET m == CHOOSE x \in S : \A y \in S \ { x } : StringLess(x, y)
         IN  m \o JoinSorted(S \ { m })

(***************************************************************************)
(* Feature                                                                 *)
(***************************************************************************)
\* a nil *Feature
Nil ==
    [ SeqId |-> "<nil>", Source |-> "<nil>", Type |-> "<nil>", Start |-> 0,
      End |-> 0, Score |-> "<nil>", Strand |-> "<nil>", Phase |-> "<nil>",
      Attributes |-> << >>, LineNumber |-> 0 ]

IsNil(f) == f = Nil

NewFeature ==
    [ SeqId |-> "", Source |-> "grz", Type |-> "SO:0000110", Start |-> 0,
      End |-> 0, Score |-> ".", Strand |-> ".", Phase |-> ".",
      Attributes |-> << >>, LineNumber |-> 0 ]

\* m[k] of a Go map: the zero value "" for a missing key
AttrGet(m, k) == IF k \in DOMAIN m THEN m[k] ELSE << "" >>

Clone(f) == f

(***************************************************************************)
(* interval.Compare (github.com/grendeloz/interval), on Low() = Start and  *)
(* High() = End.  The package is a dependency whose source is not in the   *)
(* repository; both readings of "meets" for integer intervals are carried  *)
(* in meetGap: 0 (the intervals share the end point) and 1 (the intervals  *)
(* are adjacent bases).                                                    *)
(***************************************************************************)
Compare(a, b, gap) ==
    LET al == a.Start
        ah == a.End
        bl == b.Start
        bh == b.End
    IN  IF al > ah \/ bl > bh THEN "Unknown"
        ELSE IF al = bl /\ ah = bh THEN "EqualsB"
        ELSE IF ah + gap < bl THEN "PrecedesB"
        ELSE IF bh + gap < al THEN "IsPrecededByB"
        ELSE IF al = bl /\ ah < bh THEN "StartsB"
        ELSE IF al = bl /\ ah > bh THEN "IsStartedByB"
        ELSE IF ah = bh /\ al < bl THEN "IsFinishedByB"
        ELSE IF ah = bh /\ al > bl THEN "FinishesB"
        ELSE IF ah + gap = bl THEN "MeetsB"
        ELSE IF bh + gap = al THEN "IsMetByB"
        ELSE IF al < bl /\ bh < ah THEN "ContainsB"
        ELSE IF bl < al /\ ah < bh THEN "IsContainedByB"
        ELSE IF al < bl /\ ah < bh THEN "OverlapsB"
        ELSE IF bl < al /\ bh < ah THEN "IsOverlappedByB"
        ELSE "Unknown"


(***************************************************************************)
(* Feature.merge and Feature.Merge                                         *)
(***************************************************************************)
\* mergeField taking the value of b where a and b disagree
mergeField_takesOther(x, y) == IF x # y THEN y ELSE x

\* a scalar field after merge: kept when a and b agree, else the missing marker
mergeField(x, y) == IF x # y THEN "." ELSE x

\* mergeAttributes keeping every key b also has, whatever its value in b
mergeAttributes_ignoresValue(ma, mb) ==
    LET keep == { k \in DOMAIN ma : k \in DOMAIN mb }
    IN  [ k \in keep |-> ma[k] ]

\* the attributes of a after merge: a key stays when b has it with the same value
mergeAttributes(ma, mb) ==
    LET keep == { k \in DOMAIN ma : k \in DOMAIN mb /\ ma[k] = mb[k] }
    IN  [ k \in keep |-> ma[k] ]

\* a after a.merge(b)
merge(a, b) ==
    [ a EXCEPT
        !.Start = IF b.Start < a.Start THEN b.Start ELSE a.Start,
        !.End = IF b.End > a.End THEN b.End ELSE a.End,
        !.Source = mergeField(a.Source, b.Source),
        !.Type = mergeField(a.Type, b.Type),
        !.Score = mergeField(a.Score, b.Score),
        !.Strand = mergeField(a.Strand, b.Strand),
        !.Phase = mergeField(a.Phase, b.Phase),
        !.Attributes = mergeAttributes(a.Attributes, b.Attributes) ]

\* Merge that reports the different SeqId after merging
Merge_mergesAnyway(a, b) ==
    IF a.SeqId # b.SeqId
    THEN [ a |-> merge(a, b), err |-> "different SeqId" ]
    ELSE [ a |-> merge(a, b), err |-> "nil" ]

\* a.Merge(b): the receiver afterwards and the error returned
Merge(a, b) ==
    IF a.SeqId # b.SeqId
    THEN [ a |-> a, err |-> "different SeqId" ]
    ELSE [ a |-> merge(a, b), err |-> "nil" ]

(***************************************************************************)
(* newOverlapFeature and PrudentMerge                                      *)
(***************************************************************************)
\* the Source or Type values one input contributes to the overlap Feature
contributed(f, listKey, own) ==
    IF f.Source = "grz-merge"
    THEN Range(Split(AttrGet(f.Attributes, listKey)))
    ELSE own

\* the ID strings one input contributes: the whole ID attribute is one key,
\* commas and all; the IDs of an overlap Feature are split at the commas
ownIds(f) == IF "ID" \in DOMAIN f.Attributes THEN { f.Attributes["ID"] } ELSE {}

contributedIds(f) ==
    IF f.Source = "grz-merge"
    THEN { << t >> : t \in Range(Split(AttrGet(f.Attributes, "IDs"))) }
    ELSE ownIds(f)

newOverlapFeature(a, b) ==
    LET sources == contributed(a, "Sources", {a.Source}) \cup contributed(b, "Sources", {b.Source})
        types == contributed(a, "Types", {a.Type}) \cup contributed(b, "Types", {b.Type})
        ids == contributedIds(a) \cup contributedIds(b)
    IN  [ NewFeature EXCEPT
            !.SeqId = a.SeqId,
            !.Source = "grz-merge",
            !.Attributes =
                [ k \in {"IDs", "Sources", "Types"} |->
                    IF k = "IDs" THEN Join(JoinSorted(ids))
                    ELSE IF k = "Sources" THEN Join(SortStrings(sources))
                    ELSE Join(SortStrings(types)) ] ]

\* the overlap Feature of a and b with its Start and End set
overlapAt(a, b, start, end) ==
    [ newOverlapFeature(a, b) EXCEPT !.Start = start, !.End = end ]

\* the StartsB branch of PrudentMerge: overlap, 'B
startsBCase(a, b) ==
    << overlapAt(a, b, a.Start, b.Start), [ b EXCEPT !.Start = a.End ] >>

\* the OverlapsB branch of PrudentMerge: A', overlap, 'B
overlapsBCase(a, b) ==
    << [ a EXCEPT !.End = b.Start ],
       overlapAt(a, b, b.Start, a.End),
       [ b EXCEPT !.Start = a.End ] >>

\* PrudentMerge(a, b): the Features returned and the error
PrudentMerge(a, b, gap) ==
    IF a.Start > b.Start
    THEN [ nfs |-> << >>, err |-> "A.Start > B.Start" ]
    ELSE LET allen == Compare(Clone(a), Clone(b), gap)
         IN  IF allen = "PrecedesB" \/ allen = "MeetsB"
             THEN [ nfs |-> << a, b >>, err |-> "nil" ]
             ELSE IF allen = "OverlapsB"
             THEN [ nfs |-> overlapsBCase(a, b), err |-> "nil" ]
             ELSE IF allen = "StartsB"
             THEN [ nfs |-> startsBCase(a, b), err |-> "nil" ]
             ELSE IF allen = "ContainsB"
             THEN [ nfs |-> << [ a EXCEPT !.End = b.Start ],
                               overlapAt(a, b, b.Start, b.End),
                               [ a EXCEPT !.Start = b.End ] >>,
                    err |-> "nil" ]
             ELSE IF allen = "EqualsB"
             THEN [ nfs |-> << overlapAt(a, b, a.Start, a.End) >>, err |-> "nil" ]
             ELSE IF allen = "IsFinishedByB"
             THEN [ nfs |-> << [ a EXCEPT !.End = b.Start ],
                               overlapAt(a, b, b.Start, b.End) >>,
                    err |-> "nil" ]
             ELSE IF allen = "IsStartedByB"
             THEN [ nfs |-> << overlapAt(a, b, b.Start, b.End),
                               [ a EXCEPT !.Start = b.End ] >>,
                    err |-> "nil" ]
             ELSE IF allen = "Unknown"
             THEN [ nfs |-> << >>, err |-> "Unknown" ]
             ELSE [ nfs |-> << >>, err |-> "impossible" ]


(***************************************************************************)
(* PrudentMerge on objects.  The heap st holds the objects (st.objs) and   *)
(* the Attributes maps (st.maps): the Attributes field of an object is a   *)
(* reference to a map.  The call is given the objects a and b with the     *)
(* maps ma and mb, and creates A and B (the clones), O (the overlap) and   *)
(* A2 (the second clone of the ContainsB case).                            *)
(***************************************************************************)
\* the map made for the new object n
newAttrs(n) ==
    IF n = "A" THEN "mA" ELSE IF n = "B" THEN "mB" ELSE IF n = "O" THEN "mO" ELSE "mA2"

\* the Attributes field of a clone that keeps the map of the object cloned
cloneAttributes_sameMap(st, x, n) == st.objs[x].Attributes

\* the Attributes field of the clone n of x: make(map[string]string, ...)
cloneAttributes(st, x, n) == newAttrs(n)

\* the object x.Clone() returns: a new one
cloneRef(x) == IF x = "a" THEN "A" ELSE IF x = "b" THEN "B" ELSE "A2"

\* the Feature the object x holds: its fields and the content of its map
FeatureAt(st, x) == [ st.objs[x] EXCEPT !.Attributes = st.maps[@] ]

\* n := x.Clone(): the fields are copied, and every key and value of the map
\* of x is written into the map of n
cloneObject(st, x, n) ==
    LET m == cloneAttributes(st, x, n)
    IN  [ objs |-> [ k \in DOMAIN st.objs \cup { n } |->
                       IF k = n THEN [ st.objs[x] EXCEPT !.Attributes = m ]
                       ELSE st.objs[k] ],
          maps |-> [ k \in DOMAIN st.maps \cup { m } |->
                       IF k = m THEN st.maps[st.objs[x].Attributes]
                       ELSE st.maps[k] ] ]

\* O := newOverlapFeature(A, B) with O.Start and O.End set: a new object with
\* a new map
overlapObject(st, rA, rB, start, end) ==
    LET v == overlapAt(FeatureAt(st, rA), FeatureAt(st, rB), start, end)
        m == newAttrs("O")
    IN  [ objs |-> [ k \in DOMAIN st.objs \cup { "O" } |->
                       IF k = "O" THEN [ v EXCEPT !.Attributes = m ] ELSE st.objs[k] ],
          maps |-> [ k \in DOMAIN st.maps \cup { m } |->
                       IF k = m THEN v.Attributes ELSE st.maps[k] ] ]

\* the heap when PrudentMerge(a, b) is called
argHeap(a, b) ==
    [ objs |-> [ x \in { "a", "b" } |->
                   IF x = "a" THEN [ a EXCEPT !.Attributes = "ma" ]
                   ELSE [ b EXCEPT !.Attributes = "mb" ] ],
      maps |-> [ m \in { "ma", "mb" } |->
                   IF m = "ma" THEN a.Attributes ELSE b.Attributes ] ]

\* what a call leaves: the Feature every object holds (heap), the map of every
\* object (attrs), the objects returned and the error
callResult(st, nfs, e) ==
    [ heap |-> [ x \in DOMAIN st.objs |-> FeatureAt(st, x) ],
      attrs |-> [ x \in DOMAIN st.objs |-> st.objs[x].Attributes ],
      nfs |-> nfs, err |-> e ]

\* PrudentMerge(a, b) as assignments to objects
PrudentMergeRefs(a, b, gap) ==
    LET h0 == argHeap(a, b)
    IN  IF a.Start > b.Start
        THEN callResult(h0, << >>, "A.Start > B.Start")
        ELSE
        LET rA == cloneRef("a")
            rB == cloneRef("b")
            hA == cloneObject(h0, "a", rA)
            h1 == cloneObject(hA, "b", rB)
            allen == Compare(h1.objs[rA], h1.objs[rB], gap)
            withO(start, end) == overlapObject(h1, rA, rB, start, end)
        IN  IF allen = "PrecedesB" \/ allen = "MeetsB"
            THEN callResult(h1, << rA, rB >>, "nil")
            ELSE IF allen = "OverlapsB"
            THEN LET h2 == withO(h1.objs[rB].Start, h1.objs[rA].End)
                     X == h2.objs[rA].End
                     h3 == [ h2 EXCEPT !.objs[rA].End = h2.objs[rB].Start ]
                     h4 == [ h3 EXCEPT !.objs[rB].Start = X ]
                 IN  callResult(h4, << rA, "O", rB >>, "nil")
            ELSE IF allen = "StartsB"
            THEN LET h2 == withO(h1.objs[rA].Start, h1.objs[rB].Start)
                     h3 == [ h2 EXCEPT !.objs[rB].Start = h2.objs[rA].End ]
                 IN  callResult(h3, << "O", rB >>, "nil")
            ELSE IF allen = "ContainsB"
            THEN LET h2 == withO(h1.objs[rB].Start, h1.objs[rB].End)
                     rA2 == cloneRef(rA)
                     h3 == cloneObject(h2, rA, rA2)
                     h4 == [ h3 EXCEPT !.objs[rA2].Start = h3.objs[rB].End ]
                     h5 == [ h4 EXCEPT !.objs[rA].End = h4.objs[rB].Start ]
                 IN  callResult(h5, << rA, "O", rA2 >>, "nil")
            ELSE IF allen = "EqualsB"
            THEN callResult(withO(h1.objs[rA].Start, h1.objs[rA].End), << "O" >>, "nil")
            ELSE IF allen = "IsFinishedByB"
            THEN LET h2 == withO(h1.objs[rB].Start, h1.objs[rB].End)
                     h3 == [ h2 EXCEPT !.objs[rA].End = h2.objs[rB].Start ]
                 IN  callResult(h3, << rA, "O" >>, "nil")
            ELSE IF allen = "IsStartedByB"
            THEN LET h2 == withO(h1.objs[rB].Start, h1.objs[rB].End)
                     h3 == [ h2 EXCEPT !.objs[rA].Start = h2.objs[rB].End ]
                 IN  callResult(h3, << "O", rA >>, "nil")
            ELSE IF allen = "Unknown"
            THEN callResult(h1, << >>, "Unknown")
            ELSE callResult(h1, << >>, "impossible")

(***************************************************************************)
(* Features: the collection                                                *)
(***************************************************************************)
\* sort.Ints applied to the keys of a map: the set in increasing order
RECURSIVE SortInts(_)
SortInts(S) ==
    IF S = {} THEN << >>
    ELSE LET m == CHOOSE x \in S : \A y \in S : x <= y
         IN  << m >> \o SortInts(S \ {m})

\* append(x, y...) repeated over a list of slices
RECURSIVE Flatten(_)
Flatten(slices) ==
    IF slices = << >> THEN << >>
    ELSE Head(slices) \o Flatten(Tail(slices))

HasNil(list) == \E i \in 1..Len(list) : IsNil(list[i])

\* Features.CheckSorted: the new IsSorted, or a nil dereference
CheckSorted(list) ==
    LET stop == { i \in 1..(Len(list) - 1) :
                    \/ IsNil(list[i])
                    \/ IsNil(list[i + 1])
                    \/ list[i].Start > list[i + 1].Start }
    IN  IF stop = {} THEN [ isSorted |-> TRUE, err |-> "nil" ]
        ELSE LET i == CHOOSE x \in stop : \A y \in stop : x <= y
             IN  IF IsNil(list[i]) \/ IsNil(list[i + 1])
                 THEN [ isSorted |-> FALSE, err |-> "panic" ]
                 ELSE [ isSorted |-> FALSE, err |-> "nil" ]

\* Features.BySeqId: the Features of one SeqId, in their order in the list
BySeqId(list, seqid) == SelectSeq(list, LAMBDA f : f.SeqId = seqid)

\* the slice a new endSorter entry starts with
newEndSorterEntry == << Nil, Nil >>

\* simpleSort, for the Features that share one Start: by End
sortByEnd(group) ==
    LET ends == SortInts({ group[i].End : i \in 1..Len(group) })
        entry(end) == newEndSorterEntry \o SelectSeq(group, LAMBDA f : f.End = end)
    IN  Flatten([ i \in 1..Len(ends) |-> entry(ends[i]) ])

\* Features.simpleSort: the list afterwards
simpleSort(list) ==
    LET starts == SortInts({ list[i].Start : i \in 1..Len(list) })
        sorter(start) == SelectSeq(list, LAMBDA f : f.Start = start)
        part(start) == IF Len(sorter(start)) = 1 THEN sorter(start)
                       ELSE sortByEnd(sorter(start))
    IN  Flatten([ i \in 1..Len(starts) |-> part(starts[i]) ])

\* Features.Sort
Sort(list, sorted) ==
    IF sorted THEN [ feats |-> list, isSorted |-> sorted, err |-> "nil" ]
    ELSE IF HasNil(list) THEN [ feats |-> list, isSorted |-> sorted, err |-> "panic" ]
    ELSE LET seqids == SortStrings({ list[i].SeqId : i \in 1..Len(list) })
             part(seqid) == simpleSort(BySeqId(list, seqid))
         IN  [ feats |-> Flatten([ i \in 1..Len(seqids) |-> part(seqids[i]) ]), isSorted |-> TRUE, err |-> "nil" ]

\* the relations Consolidate takes as proof that the list is not sorted
OutOfOrder ==
    { "FinishesB", "IsContainedByB", "IsOverlappedByB", "IsMetByB", "IsPrecededByB" }

\* the loop of Consolidate comparing F with the element before it in the list
\* instead of the last keeper
RECURSIVE consolidateLoop_comparesPrevious(_, _, _, _)
consolidateLoop_comparesPrevious(list, keepers, i, gap) ==
    IF i > Len(list)
    THEN [ feats |-> [ k \in 1..Len(keepers) |-> list[keepers[k]] ], err |-> "nil" ]
    ELSE LET keepidx == keepers[Len(keepers)]
             K == list[keepidx]
             P == list[i - 1]
             F == list[i]
         IN  IF IsNil(K) \/ IsNil(F) THEN [ feats |-> list, err |-> "panic" ]
             ELSE IF K.SeqId # F.SeqId THEN [ feats |-> list, err |-> "mixed SeqId" ]
             ELSE LET allen == Compare(P, F, gap)
                  IN  IF allen = "Unknown" THEN [ feats |-> list, err |-> "Unknown" ]
                      ELSE IF allen \in OutOfOrder
                      THEN [ feats |-> list, err |-> "unsorted" ]
                      ELSE IF allen = "PrecedesB"
                      THEN consolidateLoop_comparesPrevious(list, Append(keepers, i),
                                                            i + 1, gap)
                      ELSE consolidateLoop_comparesPrevious(
                               [ list EXCEPT ![keepidx] = Merge(K, F).a ],
                               keepers, i + 1, gap)

\* the loop of Consolidate from index i: list holds the Feature objects (the
\* keepers are merged in place), keepers the indices of the keepers so far
RECURSIVE consolidateLoop(_, _, _, _)
consolidateLoop(list, keepers, i, gap) ==
    IF i > Len(list)
    THEN [ feats |-> [ k \in 1..Len(keepers) |-> list[keepers[k]] ], err |-> "nil" ]
    ELSE LET keepidx == keepers[Len(keepers)]
             K == list[keepidx]
             F == list[i]
         IN  IF IsNil(K) \/ IsNil(F) THEN [ feats |-> list, err |-> "panic" ]
             ELSE IF K.SeqId # F.SeqId THEN [ feats |-> list, err |-> "mixed SeqId" ]
             ELSE LET allen == Compare(K, F, gap)
                  IN  IF allen = "Unknown" THEN [ feats |-> list, err |-> "Unknown" ]
                      ELSE IF allen \in OutOfOrder
                      THEN [ feats |-> list, err |-> "unsorted" ]
                      ELSE IF allen = "PrecedesB"
                      THEN consolidateLoop(list, Append(keepers, i), i + 1, gap)
                      ELSE consolidateLoop([ list EXCEPT ![keepidx] = Merge(K, F).a ],
                                           keepers, i + 1, gap)

\* Features.Consolidate
Consolidate(list, sorted, gap) ==
    IF ~sorted THEN [ feats |-> list, err |-> "unsorted" ]
    ELSE IF Len(list) = 0 THEN [ feats |-> list, err |-> "nil" ]
    ELSE consolidateLoop(list, << 1 >>, 2, gap)

\* insertFeatures for one Feature f: f goes before the first element whose
\* Start is not smaller; the scan dereferences f and every element it passes
insertFeature(fs, f) ==
    LET stop == { i \in 1..Len(fs) : IsNil(fs[i]) \/ fs[i].Start >= f.Start }
    IN  IF fs # << >> /\ IsNil(f) THEN [ fs |-> fs, err |-> "panic" ]
        ELSE IF stop = {} THEN [ fs |-> fs, err |-> "nil" ]
        ELSE LET i == CHOOSE x \in stop : \A y \in stop : x <= y
             IN  IF IsNil(fs[i]) THEN [ fs |-> fs, err |-> "panic" ]
                 ELSE [ fs |-> SubSeq(fs, 1, i - 1) \o << f >> \o SubSeq(fs, i, Len(fs)),
                        err |-> "nil" ]

\* insertFeatures(fs1, fs2...)
RECURSIVE insertFeatures(_, _)
insertFeatures(fs1, fs2) ==
    IF fs2 = << >> THEN [ fs |-> fs1, err |-> "nil" ]
    ELSE LET r == insertFeature(fs1, Head(fs2))
         IN  IF r.err # "nil" THEN r ELSE insertFeatures(r.fs, Tail(fs2))

\* prudentStep that, when PrudentMerge returns one Feature, leaves A and B in
\* the candidates
prudentStep_keepsCandidates(ks, cs, gap) ==
    IF Len(cs) = 0 THEN [ keepers |-> ks, candidates |-> cs, done |-> TRUE, err |-> "nil" ]
    ELSE IF Len(cs) = 1
    THEN [ keepers |-> Append(ks, cs[1]), candidates |-> cs, done |-> TRUE, err |-> "nil" ]
    ELSE LET a == cs[1]
             b == cs[2]
             rest == SubSeq(cs, 3, Len(cs))
             fail(e) == [ keepers |-> ks, candidates |-> cs, done |-> TRUE, err |-> e ]
         IN  IF IsNil(a) \/ IsNil(b) THEN fail("panic")
             ELSE IF a.SeqId # b.SeqId THEN fail("mixed SeqId")
             ELSE LET r == PrudentMerge(a, b, gap)
                  IN  IF r.err # "nil" THEN fail(r.err)
                      ELSE IF Len(r.nfs) = 1
                      THEN LET ins == insertFeatures(rest, r.nfs)
                           IN  IF ins.err # "nil" THEN fail(ins.err)
                               ELSE [ keepers |-> ks, candidates |-> cs,
                                      done |-> FALSE, err |-> "nil" ]
                      ELSE LET ins == insertFeatures(rest, Tail(r.nfs))
                           IN  IF ins.err # "nil" THEN fail(ins.err)
                               ELSE [ keepers |-> Append(ks, r.nfs[1]), candidates |-> ins.fs,
                                      done |-> FALSE, err |-> "nil" ]

\* one pass of the loop of PrudentMergeByType over the keepers ks and the
\* candidates cs: done says the loop was left (by break or by return)
prudentStep(ks, cs, gap) ==
    IF Len(cs) = 0 THEN [ keepers |-> ks, candidates |-> cs, done |-> TRUE, err |-> "nil" ]
    ELSE IF Len(cs) = 1
    THEN [ keepers |-> Append(ks, cs[1]), candidates |-> cs, done |-> TRUE, err |-> "nil" ]
    ELSE LET a == cs[1]
             b == cs[2]
             rest == SubSeq(cs, 3, Len(cs))
             fail(e) == [ keepers |-> ks, candidates |-> cs, done |-> TRUE, err |-> e ]
         IN  IF IsNil(a) \/ IsNil(b) THEN fail("panic")
             ELSE IF a.SeqId # b.SeqId THEN fail("mixed SeqId")
             ELSE LET r == PrudentMerge(a, b, gap)
                  IN  IF r.err # "nil" THEN fail(r.err)
                      ELSE IF Len(r.nfs) = 1
                      THEN LET ins == insertFeatures(rest, r.nfs)
                           IN  IF ins.err # "nil" THEN fail(ins.err)
                               ELSE [ keepers |-> ks, candidates |-> ins.fs,
                                      done |-> FALSE, err |-> "nil" ]
                      ELSE LET ins == insertFeatures(rest, Tail(r.nfs))
                           IN  IF ins.err # "nil" THEN fail(ins.err)
                               ELSE [ keepers |-> Append(ks, r.nfs[1]), candidates |-> ins.fs,
                                      done |-> FALSE, err |-> "nil" ]

\* the loop of PrudentMergeByType
RECURSIVE prudentLoop(_, _, _)
prudentLoop(keepers, candidates, gap) ==
    IF Len(candidates) = 0 THEN [ feats |-> keepers, err |-> "nil" ]
    ELSE IF Len(candidates) = 1
    THEN [ feats |-> Append(keepers, candidates[1]), err |-> "nil" ]
    ELSE LET a == candidates[1]
             b == candidates[2]
             rest == SubSeq(candidates, 3, Len(candidates))
         IN  IF IsNil(a) \/ IsNil(b) THEN [ feats |-> keepers, err |-> "panic" ]
             ELSE IF a.SeqId # b.SeqId THEN [ feats |-> keepers, err |-> "mixed SeqId" ]
             ELSE LET r == PrudentMerge(a, b, gap)
                  IN  IF r.err # "nil" THEN [ feats |-> keepers, err |-> r.err ]
                      ELSE IF Len(r.nfs) = 1
                      THEN LET ins == insertFeatures(rest, r.nfs)
                           IN  IF ins.err # "nil" THEN [ feats |-> keepers, err |-> ins.err ]
                               ELSE prudentLoop(keepers, ins.fs, gap)
                      ELSE LET ins == insertFeatures(rest, Tail(r.nfs))
                           IN  IF ins.err # "nil" THEN [ feats |-> keepers, err |-> ins.err ]
                               ELSE prudentLoop(Append(keepers, r.nfs[1]), ins.fs, gap)

\* Features.PrudentMergeByType: the list is replaced only when nil is returned
PrudentMergeByType(list, sorted, gap) ==
    IF ~sorted THEN [ feats |-> list, err |-> "unsorted" ]
    ELSE LET r == prudentLoop(<< >>, list, gap)
         IN  IF r.err = "nil" THEN r ELSE [ feats |-> list, err |-> r.err ]


(***************************************************************************)
(* Inputs: Features as NewFeatureFromLine makes them from a GFF3 line      *)
(***************************************************************************)
SeqIds == { "1", "2" }

\* the closed intervals [Start, End] over 1..maxp
Intervals(maxp) == { iv \in (1..maxp) \X (1..maxp) : iv[1] <= iv[2] }

\* the ID attribute of the Feature on the i-th feature line
LineIds == << "a", "b", "c", "d", "e" >>

\* the Feature parsed from the i-th feature line "seqid ensembl exon start end . . . ID=x"
LineFeature(seqid, iv, i) ==
    [ SeqId |-> seqid, Source |-> "ensembl", Type |-> "exon", Start |-> iv[1],
      End |-> iv[2], Score |-> ".", Strand |-> ".", Phase |-> ".",
      Attributes |-> [ k \in {"ID"} |-> << LineIds[i] >> ],
      LineNumber |-> i + 1 ]

\* the Feature lists NewFromScanner can produce from n feature lines
ParsedLists(n, seqids) ==
    { [ i \in 1..n |-> LineFeature(c[i][1], c[i][2], i) ] :
        c \in [ 1..n -> seqids \X Intervals(MaxCoord) ] }

NoFeature == Nil
NoSeed ==
    [ Mask |-> << >>, Sequences |-> << >>, Offsets |-> << >>, Sequence |-> << >>,
      Coords |-> << >>, genomeUUID |-> "" ]
NoGenome == [ UUID |-> "", Sequences |-> << >> ]
NoCall == [ feats |-> << >>, isSorted |-> FALSE, op |-> "none", err |-> "nil" ]

\* the variables a specification does not use
IdleFeature ==
    /\ A = NoFeature /\ B = NoFeature /\ C = NoFeature
    /\ out = << >> /\ hist = << >> /\ orig = << >>
\* no PrudentMergeByType call is running
IdleLoop == pmKeepers = << >> /\ pmCandidates = << >>
\* no file is open
NoReader == [ pos |-> 0, Headers |-> << >>, recCtr |-> 0, nextRecId |-> << >>, EOF |-> FALSE ]
IdleReader == fileLines = << >> /\ reader = NoReader
IdleFeatures == feats = << >> /\ isSorted = FALSE /\ IdleLoop /\ IdleReader
IdleSeed ==
    /\ genome = NoGenome /\ mask = << >> /\ seed = NoSeed
    /\ disk = << >> /\ loaded = NoSeed

(***************************************************************************)
(* Spec: a Features collection read from a GFF3 file and the operations    *)
(* called on it.  A nil dereference ends the program.                      *)
(***************************************************************************)
Init ==
    /\ \E n \in 0..MaxFeatures : feats \in ParsedLists(n, SeqIds)
    /\ isSorted = FALSE
    /\ meetGap \in {0, 1}
    /\ op = "none" /\ err = "nil" /\ pre = NoCall
    /\ IdleFeature /\ IdleSeed /\ IdleLoop /\ IdleReader

Called(name) ==
    /\ err # "panic"
    /\ op' = name
    /\ pre' = [ feats |-> feats, isSorted |-> isSorted, op |-> op, err |-> err ]
    /\ UNCHANGED << A, B, C, out, hist, orig, genome, mask, seed,
                    meetGap, disk, loaded, pmKeepers, pmCandidates,
                    fileLines, reader >>

DoSort ==
    /\ Called("Sort")
    /\ LET r == Sort(feats, isSorted)
       IN  feats' = r.feats /\ isSorted' = r.isSorted /\ err' = r.err

DoCheckSorted ==
    /\ Called("CheckSorted")
    /\ LET r == CheckSorted(feats)
       IN  IF r.err = "panic"
           THEN err' = "panic" /\ UNCHANGED << feats, isSorted >>
           ELSE err' = "nil" /\ isSorted' = r.isSorted /\ UNCHANGED feats

DoConsolidate ==
    /\ Called("Consolidate")
    /\ LET r == Consolidate(feats, isSorted, meetGap)
       IN  feats' = r.feats /\ err' = r.err /\ UNCHANGED isSorted

DoPrudentMergeByType ==
    /\ Called("PrudentMergeByType")
    /\ LET r == PrudentMergeByType(feats, isSorted, meetGap)
       IN  feats' = r.feats /\ err' = r.err /\ UNCHANGED isSorted

Next == DoSort \/ DoCheckSorted \/ DoConsolidate \/ DoPrudentMergeByType

Spec == Init /\ [][Next]_vars


(***************************************************************************)
(* SpecCons: a collection whose Features all lie on one sequence, sorted   *)
(* or checked, then consolidated                                           *)
(***************************************************************************)
InitCons ==
    /\ \E n \in 0..MaxFeatures : feats \in ParsedLists(n, {"1"})
    /\ isSorted = FALSE
    /\ meetGap \in {0, 1}
    /\ op = "none" /\ err = "nil" /\ pre = NoCall
    /\ IdleFeature /\ IdleSeed /\ IdleLoop /\ IdleReader

NextCons == DoSort \/ DoCheckSorted \/ DoConsolidate

SpecCons == InitCons /\ [][NextCons]_vars

(***************************************************************************)
(* SpecEdit: a collection that is also edited: AddFeatures,                *)
(* AddFeaturesWithSort, KeepByType, KeepBySeqId and DeleteBySeqId beside   *)
(* the operations of Spec.                                                 *)
(***************************************************************************)
\* Features.AddFeatures(fs2...)
AddFeatures(list, fs2) == [ feats |-> list \o fs2, isSorted |-> FALSE, err |-> "nil" ]

\* Features.AddFeaturesWithSort(fs2...): append, then Sort
AddFeaturesWithSort(list, sorted, fs2) == Sort(list \o fs2, sorted)

\* Features.KeepByType(keeps)
KeepByType(list, keeps) ==
    IF HasNil(list) THEN [ feats |-> list, err |-> "panic" ]
    ELSE [ feats |-> SelectSeq(list, LAMBDA f : f.Type \in Range(keeps)), err |-> "nil" ]

\* the patterns given to KeepBySeqId and DeleteBySeqId
Patterns == { "1", "2", ".", "(" }

\* regexp.Compile(pattern) succeeds
Compiles(pattern) == pattern # "("

\* regexp.MatchString on a one-character SeqId
MatchString(pattern, seqid) == pattern = "." \/ pattern = seqid

\* the orders in which a range over a map can visit the keys S
MapOrders(S) == { o \in [ 1..Cardinality(S) -> S ] : Range(o) = S }

\* the SeqIds of a list
SeqIdsOf(list) == { list[i].SeqId : i \in 1..Len(list) }

\* the list KeepBySeqId and DeleteBySeqId put back: the partitions of the
\* surviving SeqIds, in the order the map is walked
putBack(list, order) == Flatten([ i \in 1..Len(order) |-> BySeqId(list, order[i]) ])

\* Features.KeepBySeqId(pattern); IsSorted is left as it is
KeepBySeqId(list, pattern, order) ==
    IF ~Compiles(pattern) THEN [ feats |-> list, err |-> "pattern" ]
    ELSE IF HasNil(list) THEN [ feats |-> list, err |-> "panic" ]
    ELSE [ feats |-> putBack(list, order), err |-> "nil" ]

\* Features.DeleteBySeqId(pattern); IsSorted becomes false
DeleteBySeqId(list, pattern, order) ==
    IF ~Compiles(pattern) THEN [ feats |-> list, err |-> "pattern" ]
    ELSE IF HasNil(list) THEN [ feats |-> list, err |-> "panic" ]
    ELSE [ feats |-> putBack(list, order), err |-> "nil" ]

\* the Features a caller builds and adds: genes on either sequence
AddedFeatures ==
    { [ LineFeature(c[1], c[2], 5) EXCEPT !.Type = "gene", !.LineNumber = 0 ] :
        c \in { << "1", << 1, 1 >> >>, << "1", << 2, 3 >> >>, << "2", << 1, 2 >> >> } }

\* the Type lists given to KeepByType
KeepLists == { << "exon" >>, << "gene" >>, << "exon", "gene" >> }

InitEdit ==
    /\ \E n \in 0..(MaxFeatures - 2) : feats \in ParsedLists(n, SeqIds)
    /\ isSorted = FALSE
    /\ meetGap \in {0, 1}
    /\ op = "none" /\ err = "nil" /\ pre = NoCall
    /\ IdleFeature /\ IdleSeed /\ IdleLoop /\ IdleReader

DoAddFeatures ==
    /\ Called("AddFeatures")
    /\ Len(feats) < MaxFeatures
    /\ \E f \in AddedFeatures :
         LET r == AddFeatures(feats, << f >>)
         IN  feats' = r.feats /\ isSorted' = r.isSorted /\ err' = r.err

DoAddFeaturesWithSort ==
    /\ Called("AddFeaturesWithSort")
    /\ Len(feats) < MaxFeatures
    /\ \E f \in AddedFeatures :
         LET r == AddFeaturesWithSort(feats, isSorted, << f >>)
         IN  feats' = r.feats /\ isSorted' = r.isSorted /\ err' = r.err

DoKeepByType ==
    /\ Called("KeepByType")
    /\ \E keeps \in KeepLists :
         LET r == KeepByType(feats, keeps)
         IN  feats' = r.feats /\ err' = r.err /\ UNCHANGED isSorted

DoKeepBySeqId ==
    /\ Called("KeepBySeqId")
    /\ \E pattern \in Patterns :
         IF Compiles(pattern) /\ ~HasNil(feats)
         THEN \E order \in MapOrders({ x \in SeqIdsOf(feats) : MatchString(pattern, x) }) :
                LET r == KeepBySeqId(feats, pattern, order)
                IN  feats' = r.feats /\ err' = r.err /\ UNCHANGED isSorted
         ELSE LET r == KeepBySeqId(feats, pattern, << >>)
              IN  feats' = r.feats /\ err' = r.err /\ UNCHANGED isSorted

DoDeleteBySeqId ==
    /\ Called("DeleteBySeqId")
    /\ \E pattern \in Patterns :
         IF Compiles(pattern) /\ ~HasNil(feats)
         THEN \E order \in MapOrders({ x \in SeqIdsOf(feats) : ~MatchString(pattern, x) }) :
                LET r == DeleteBySeqId(feats, pattern, order)
                IN  feats' = r.feats /\ err' = r.err /\ isSorted' = FALSE
         ELSE LET r == DeleteBySeqId(feats, pattern, << >>)
              IN  feats' = r.feats /\ err' = r.err /\ UNCHANGED isSorted

NextEdit ==
    \/ DoAddFeatures \/ DoAddFeaturesWithSort \/ DoKeepByType \/ DoKeepBySeqId
    \/ DoDeleteBySeqId \/ DoSort \/ DoCheckSorted \/ DoConsolidate
    \/ DoPrudentMergeByType

SpecEdit == InitEdit /\ [][NextEdit]_vars

(***************************************************************************)
(* Properties of the collection                                            *)
(***************************************************************************)
\* the base positions a list of Features covers, per sequence
Cover(list) ==
    UNION { { << list[i].SeqId, p >> : p \in list[i].Start..list[i].End } :
              i \in { j \in 1..Len(list) : ~IsNil(list[j]) } }

\* non-decreasing Start order, one SeqId, no nil entry
SortedOneSeq(list) ==
    /\ ~HasNil(list)
    /\ \A i \in 1..(Len(list) - 1) :
         list[i].Start <= list[i + 1].Start /\ list[i].SeqId = list[i + 1].SeqId

\* how often x occurs in a list
Occurrences(list, x) == Cardinality({ i \in 1..Len(list) : list[i] = x })

SamePermutation(l1, l2) ==
    /\ Len(l1) = Len(l2)
    /\ \A x \in Range(l1) \cup Range(l2) : Occurrences(l1, x) = Occurrences(l2, x)

\* f may stand before g in a list sorted by SeqId, Start, End
InSortOrder(f, g) ==
    /\ ~IsNil(f) /\ ~IsNil(g)
    /\ \/ Rank(f.SeqId) < Rank(g.SeqId)
       \/ /\ f.SeqId = g.SeqId
          /\ \/ f.Start < g.Start
             \/ f.Start = g.Start /\ f.End <= g.End

\* C3: after PrudentMergeByType returns nil on a collection sorted by Start
\* with one SeqId, the result covers exactly the base positions the input covered.
C3_PrudentMergeByTypeKeepsCoverage ==
    (op = "PrudentMergeByType" /\ err = "nil" /\ SortedOneSeq(pre.feats))
        => Cover(feats) = Cover(pre.feats)

\* the Features of a list are in increasing Start order and the covered base
\* positions are those of the list before
OrderedSameCover(list, before) ==
    /\ \A i \in 1..(Len(list) - 1) : list[i].Start < list[i + 1].Start
    /\ Cover(list) = Cover(before)

\* C7: after Consolidate returns nil on a collection in non-decreasing Start
\* order with one SeqId, the Features are in increasing Start order, each one
\* strictly precedes the next and is not immediately adjacent to it (at least
\* one base position lies between them: End + 1 < the next Start), and the
\* covered base positions are those of the input.
C7_ConsolidateMinimalCover ==
    (op = "Consolidate" /\ err = "nil" /\ SortedOneSeq(pre.feats))
        => /\ OrderedSameCover(feats, pre.feats)
           /\ \A i \in 1..(Len(feats) - 1) : feats[i].End + 1 < feats[i + 1].Start

\* C7, when interval.Compare gives MeetsB for adjacent bases (meetGap = 1):
\* the statement holds
C7_HoldsWhenMeetsIsAdjacent ==
    meetGap = 1 => C7_ConsolidateMinimalCover

\* C7, when interval.Compare gives MeetsB for a shared end point (meetGap = 0):
\* order and coverage hold and no base position lies in two of the Features,
\* and adjacent Features stay apart
C7_HoldsButForAdjacency ==
    (op = "Consolidate" /\ err = "nil" /\ SortedOneSeq(pre.feats))
        => /\ OrderedSameCover(feats, pre.feats)
           /\ \A i \in 1..(Len(feats) - 1) : feats[i].End < feats[i + 1].Start

\* C7: adjacent Features that a successful Consolidate kept apart
C7_AdjacentKept ==
    /\ op = "Consolidate" /\ err = "nil" /\ SortedOneSeq(pre.feats)
    /\ \E i \in 1..(Len(feats) - 1) : feats[i].End + 1 = feats[i + 1].Start

\* C7: adjacent Features are kept apart only under the shared-end-point reading
C7_AdjacentKeptOnlyWhenMeetsShares ==
    C7_AdjacentKept => meetGap = 0

\* C8: a Consolidate that follows a successful Consolidate succeeds and leaves
\* the Feature list (count, order and every field of every Feature) as it was.
C8_ConsolidateIdempotent ==
    (op = "Consolidate" /\ pre.op = "Consolidate" /\ pre.err = "nil")
        => (err = "nil" /\ feats = pre.feats)

\* C8 witness: the second of two successful Consolidate calls, on a list in
\* which the first call merged Features (a merged Feature lost its ID) and
\* kept another one
C8_Witness ==
    /\ op = "Consolidate" /\ pre.op = "Consolidate" /\ pre.err = "nil" /\ err = "nil"
    /\ Len(feats) = 2
    /\ \E i \in 1..Len(feats) : DOMAIN feats[i].Attributes = {}

\* C9: after Sort on an unsorted collection the Features of each SeqId are one
\* contiguous block, blocks in SeqId order, each block by Start then End, and
\* IsSorted is true.
C9_SortOrdersBySeqIdStartEnd ==
    (op = "Sort" /\ err = "nil" /\ ~pre.isSorted)
        => /\ isSorted
           /\ \A i \in 1..(Len(feats) - 1) : InSortOrder(feats[i], feats[i + 1])

\* C10: Sort only reorders: the list after Sort is a permutation of the list
\* before it, with no nil entry.
C10_SortIsPermutation ==
    (op = "Sort" /\ err = "nil")
        => (~HasNil(feats) /\ SamePermutation(feats, pre.feats))


\* the Features of one SeqId, nil entries left out, in their order in the list
FeaturesOf(list, seqid) == SelectSeq(list, LAMBDA f : ~IsNil(f) /\ f.SeqId = seqid)

\* non-decreasing Start order
ByStart(list) == \A i \in 1..(Len(list) - 1) : list[i].Start <= list[i + 1].Start

\* C11: in every reachable state, if IsSorted is true the Features of each
\* SeqId appear in non-decreasing Start order.
C11_SortedFlagMeansSorted ==
    isSorted => \A seqid \in SeqIds : ByStart(FeaturesOf(feats, seqid))

\* C12: whenever Consolidate returns an error, the Feature list and every field
\* of every Feature are as they were before the call.
C12_ConsolidateErrorLeavesReceiver ==
    (op = "Consolidate" /\ err \notin { "nil", "panic" })
        => (feats = pre.feats /\ isSorted = pre.isSorted)

(***************************************************************************)
(* SpecLoop: a collection read from a file of one sequence and found       *)
(* sorted, then one call of PrudentMergeByType, one pass of its for loop   *)
(* at a time.  SpecLoopLive adds that the program takes its next step.     *)
(***************************************************************************)
InitLoop ==
    /\ feats = << >> /\ isSorted = FALSE
    /\ meetGap \in {0, 1}
    /\ op = "none" /\ err = "nil"
    /\ pre = [ feats |-> << >>, isSorted |-> FALSE, op |-> "none", err |-> "nil" ]
    /\ IdleFeature /\ IdleSeed /\ IdleLoop /\ IdleReader

\* NewFromScanner reading the next feature line of a file whose lines name one
\* sequence and come in Start order: the Feature is appended
ReadFeatureLine ==
    /\ op = "none" /\ Len(feats) < MaxFeatures
    /\ \E iv \in Intervals(MaxCoord) :
         /\ IF feats = << >> THEN TRUE ELSE feats[Len(feats)].Start <= iv[1]
         /\ feats' = Append(feats, LineFeature("1", iv, Len(feats) + 1))
    /\ UNCHANGED << A, B, C, out, isSorted, genome, mask, seed, op, err, pre, hist, orig,
                    meetGap, disk, loaded, pmKeepers, pmCandidates,
                    fileLines, reader >>

\* features.CheckSorted() on the list read
CheckSortedRead ==
    /\ op = "none"
    /\ LET r == CheckSorted(feats)
       IN  isSorted' = r.isSorted /\ err' = r.err
    /\ op' = "CheckSorted"
    /\ UNCHANGED << A, B, C, out, feats, genome, mask, seed, pre, hist, orig,
                    meetGap, disk, loaded, pmKeepers, pmCandidates,
                    fileLines, reader >>

\* the call up to the for loop: the IsSorted test and the priming of the lists
BeginPrudentMergeByType ==
    /\ op = "CheckSorted"
    /\ pre' = [ feats |-> feats, isSorted |-> isSorted, op |-> op, err |-> err ]
    /\ IF ~isSorted
       THEN op' = "returned" /\ err' = "unsorted" /\ UNCHANGED << pmKeepers, pmCandidates >>
       ELSE /\ op' = "PrudentMergeByType" /\ err' = "nil"
            /\ pmKeepers' = << >> /\ pmCandidates' = feats
    /\ UNCHANGED << A, B, C, out, feats, isSorted, genome, mask, seed, hist, orig,
                    meetGap, disk, loaded, fileLines, reader >>

\* one pass of the for loop; the pass that leaves the loop also returns
StepPrudentMergeByType ==
    /\ op = "PrudentMergeByType"
    /\ \E r \in { prudentStep(pmKeepers, pmCandidates, meetGap) } :
         /\ pmKeepers' = r.keepers /\ pmCandidates' = r.candidates
         /\ IF r.done
            THEN /\ op' = "returned" /\ err' = r.err
                 /\ feats' = IF r.err = "nil" THEN r.keepers ELSE feats
            ELSE UNCHANGED << op, err, feats >>
    /\ UNCHANGED << A, B, C, out, isSorted, genome, mask, seed, pre, hist, orig,
                    meetGap, disk, loaded, fileLines, reader >>

NextLoop ==
    ReadFeatureLine \/ CheckSortedRead \/ BeginPrudentMergeByType \/ StepPrudentMergeByType

SpecLoop == InitLoop /\ [][NextLoop]_vars

SpecLoopLive == SpecLoop /\ WF_vars(NextLoop)

\* C19: a PrudentMergeByType call on a sorted collection whose Features lie on
\* one sequence eventually returns without an error, its candidates list then
\* holding at most one Feature.
C19_PrudentMergeByTypeTerminates ==
    <>(op = "returned" /\ err = "nil" /\ Len(pmCandidates) <= 1)

\* a call on three Features, two of them with the same Start and two of them
\* sharing an end point, returned after cutting them into other Features
C19_Witness ==
    /\ op = "returned" /\ err = "nil"
    /\ Len(pre.feats) = 3 /\ Len(feats) = 3
    /\ \A k \in 1..3 : feats[k] \notin Range(pre.feats)
    /\ \E i, j \in 1..3 : i < j /\ pre.feats[i].Start = pre.feats[j].Start
    /\ \E i, j \in 1..3 : i < j /\ pre.feats[i].End = pre.feats[j].Start

\* the step-wise call returns what the call as a whole returns
PrudentLoopAgrees ==
    op = "returned" =>
        LET r == PrudentMergeByType(pre.feats, pre.isSorted, meetGap)
        IN  feats = r.feats /\ err = r.err

(***************************************************************************)
(* SpecPM: PrudentMerge(A, B) on two Features parsed from GFF3 lines       *)
(***************************************************************************)
\* the columns and attributes of the feature lines the operands come from
Profiles ==
    { [ SeqId |-> "1", Source |-> "ensembl", Type |-> "exon",
        Attributes |-> [ k \in {"ID"} |-> << "a" >> ] ],
      [ SeqId |-> "1", Source |-> "havana", Type |-> "gene",
        Attributes |-> [ k \in {"ID"} |-> << "b" >> ] ],
      [ SeqId |-> "2", Source |-> "ensembl", Type |-> "gene",
        Attributes |-> << >> ] }

\* the Feature parsed from a line with the columns of profile pr and interval iv
ProfileFeature(pr, iv) ==
    [ SeqId |-> pr.SeqId, Source |-> pr.Source, Type |-> pr.Type, Start |-> iv[1],
      End |-> iv[2], Score |-> ".", Strand |-> ".", Phase |-> ".",
      Attributes |-> pr.Attributes, LineNumber |-> 0 ]

Operands == { ProfileFeature(pr, iv) : pr \in Profiles, iv \in Intervals(MaxPos) }

InitPM ==
    /\ A \in Operands /\ B \in Operands /\ C = NoFeature
    /\ out = << >> /\ hist = << >> /\ orig = << >>
    /\ meetGap \in {0, 1}
    /\ op = "none" /\ err = "nil" /\ pre = NoCall
    /\ IdleFeatures /\ IdleSeed

\* nfs, err := PrudentMerge(A, B), with A and B the objects a and b of the
\* call: out holds the Features returned, hist the object each of them is and
\* the map its Attributes field points to, pre.attrs the maps of a and b
DoPrudentMerge ==
    /\ op = "none"
    /\ \E r \in { PrudentMergeRefs(A, B, meetGap) } :
           /\ A' = r.heap["a"] /\ B' = r.heap["b"]
           /\ out' = [ i \in 1..Len(r.nfs) |-> r.heap[r.nfs[i]] ]
           /\ hist' = [ i \in 1..Len(r.nfs) |->
                         [ obj |-> r.nfs[i], attrs |-> r.attrs[r.nfs[i]] ] ]
           /\ err' = r.err
           /\ pre' = [ A |-> A, B |-> B, attrs |-> { r.attrs["a"], r.attrs["b"] } ]
    /\ op' = "PrudentMerge"
    /\ UNCHANGED << C, feats, isSorted, genome, mask, seed, orig,
                    meetGap, disk, loaded, pmKeepers, pmCandidates,
                    fileLines, reader >>

NextPM == DoPrudentMerge

SpecPM == InitPM /\ [][NextPM]_vars

\* the base positions p with f.Start <= p <= f.End for some Feature f of the list
Positions(list) == UNION { list[i].Start..list[i].End : i \in 1..Len(list) }

\* C1: the Features PrudentMerge(A, B) returns cover exactly the base positions
\* covered by A or by B, for every Allen relation between A and B.
C1_PrudentMergeCoversUnion ==
    (op = "PrudentMerge" /\ err = "nil")
        => Positions(out) = Positions(<< A, B >>)

\* C2: the Features PrudentMerge(A, B) returns are pairwise non-overlapping as
\* closed intervals: no base position lies in two of them.
C2_PrudentMergeDisjoint ==
    (op = "PrudentMerge" /\ err = "nil")
        => \A i, j \in 1..Len(out) :
             i < j => (out[i].Start..out[i].End) \cap (out[j].Start..out[j].End) = {}


\* C14: PrudentMerge(a, b) leaves every field and attribute of a and b as they
\* were, whatever it returns; no returned Feature is the object a or b, and the
\* Attributes field of no returned Feature points to the map of a or of b.
C14_PrudentMergeKeepsInputs ==
    op = "PrudentMerge" =>
        /\ A = pre.A /\ B = pre.B
        /\ \A i \in 1..Len(hist) : hist[i].obj \notin { "a", "b" }
        /\ \A i \in 1..Len(hist) : hist[i].attrs \notin pre.attrs

\* C14 witness: a three-way split whose first piece is a shortened copy of A
\* with the attributes of A in a map of its own
C14_Witness ==
    /\ op = "PrudentMerge" /\ err = "nil" /\ Len(out) = 3
    /\ out[1].End < pre.A.End /\ A = pre.A
    /\ out[3].Start > pre.B.Start /\ B = pre.B
    /\ out[1].Attributes = pre.A.Attributes /\ out[1].Attributes # << >>
    /\ hist[1].attrs \notin pre.attrs

\* the object-level PrudentMerge returns the Features the value-level one does
PrudentMergeRefsAgree ==
    op = "PrudentMerge" =>
        (out = PrudentMerge(pre.A, pre.B, meetGap).nfs
         /\ err = PrudentMerge(pre.A, pre.B, meetGap).err)


(***************************************************************************)
(* SpecOverlap: PrudentMerge(A, B), then PrudentMerge of one of the        *)
(* returned Features with a third Feature C, in Start order                *)
(***************************************************************************)
InitOverlap ==
    /\ A \in Operands /\ B \in Operands /\ C \in Operands
    /\ out = << >> /\ hist = << >> /\ orig = << >>
    /\ meetGap \in {0, 1}
    /\ op = "none" /\ err = "nil" /\ pre = NoCall
    /\ IdleFeatures /\ IdleSeed

\* nfs, err := PrudentMerge(x, C) or PrudentMerge(C, x) for a Feature x that the
\* first call returned; pre records x and whether x is the overlap Feature
DoPrudentMergeNext ==
    /\ op = "PrudentMerge" /\ err = "nil"
    /\ \E i \in 1..Len(out) :
         \E xFirst \in { out[i].Start <= C.Start, ~(C.Start <= out[i].Start) } :
           LET x == out[i]
               r == IF xFirst THEN PrudentMergeRefs(x, C, meetGap)
                    ELSE PrudentMergeRefs(C, x, meetGap)
           IN  /\ out' = [ j \in 1..Len(r.nfs) |-> r.heap[r.nfs[j]] ]
               /\ hist' = [ j \in 1..Len(r.nfs) |->
                             [ obj |-> r.nfs[j], attrs |-> r.attrs[r.nfs[j]] ] ]
               /\ err' = r.err
               /\ pre' = [ A |-> A, B |-> B, x |-> x, isOverlap |-> (hist[i].obj = "O") ]
    /\ op' = "PrudentMergeNext"
    /\ UNCHANGED << A, B, C, feats, isSorted, genome, mask, seed, orig,
                    meetGap, disk, loaded, pmKeepers, pmCandidates,
                    fileLines, reader >>

NextOverlap == DoPrudentMerge \/ DoPrudentMergeNext

SpecOverlap == InitOverlap /\ [][NextOverlap]_vars

\* the comma-joined, sorted, duplicate-free list of a set of values
ListOf(S) == Join(SortStrings(S))

\* f is an overlap Feature whose Sources, Types and IDs list the Source, Type
\* and ID values of the Features fs
ListsContributors(f, fs) ==
    /\ f.Source = "grz-merge" /\ f.Type = "SO:0000110"
    /\ DOMAIN f.Attributes = { "IDs", "Sources", "Types" }
    /\ f.Attributes["Sources"] = ListOf({ g.Source : g \in fs })
    /\ f.Attributes["Types"] = ListOf({ g.Type : g \in fs })
    /\ f.Attributes["IDs"] = Join(JoinSorted(UNION { ownIds(g) : g \in fs }))

\* C18: the overlap Feature PrudentMerge builds lists, sorted and without
\* duplicates, exactly the Source, Type and ID values of the original Features
\* that contributed, also when one of its inputs is itself an overlap Feature.
C18_OverlapListsContributors ==
    /\ (op = "PrudentMerge" /\ err = "nil") =>
         \A i \in 1..Len(out) :
           hist[i].obj = "O" => ListsContributors(out[i], { pre.A, pre.B })
    /\ (op = "PrudentMergeNext" /\ err = "nil") =>
         \A i \in 1..Len(out) :
           hist[i].obj = "O" =>
             ListsContributors(out[i],
                 IF pre.isOverlap THEN { A, B, C } ELSE { pre.x, C })

(***************************************************************************)
(* SpecMerge: Feature.Merge called on three Features A, B, C.  A scenario  *)
(* is two calls: an order that combines the three, or a repeated call.     *)
(***************************************************************************)
\* a feature line with every column and two attributes set
BaseFeature(iv) ==
    [ SeqId |-> "1", Source |-> "ensembl", Type |-> "exon", Start |-> iv[1],
      End |-> iv[2], Score |-> ".", Strand |-> "+", Phase |-> "0",
      Attributes |-> [ k \in {"ID", "Name"} |-> IF k = "ID" THEN << "a" >> ELSE << "n" >> ],
      LineNumber |-> 0 ]

\* the Features Merge is called on: the base line on any interval, and the
\* base line on [2,3] with one column or the attributes changed
MergeOperands ==
    LET base == BaseFeature(<< 2, 3 >>)
    IN  { BaseFeature(iv) : iv \in Intervals(MaxPos) }
        \cup { [ base EXCEPT !.SeqId = "2" ],
               [ base EXCEPT !.Source = "havana" ],
               [ base EXCEPT !.Source = "." ],
               [ base EXCEPT !.Type = "gene" ],
               [ base EXCEPT !.Score = "5" ],
               [ base EXCEPT !.Strand = "-" ],
               [ base EXCEPT !.Phase = "." ],
               [ base EXCEPT !.Attributes = [ k \in {"ID", "Name"} |->
                                              IF k = "ID" THEN << "b" >> ELSE << "n" >> ] ],
               [ base EXCEPT !.Attributes = [ k \in {"ID"} |-> << "a" >> ] ],
               [ base EXCEPT !.Attributes = << >> ] }

Objects == { "A", "B", "C" }

\* the three objects by name
Object(x) == IF x = "A" THEN A ELSE IF x = "B" THEN B ELSE C

InitMerge ==
    /\ A \in MergeOperands /\ B \in MergeOperands /\ C \in MergeOperands
    /\ orig = [ A |-> A, B |-> B, C |-> C ]
    /\ pre = [ A |-> A, B |-> B, C |-> C ]
    /\ out = << >> /\ hist = << >>
    /\ meetGap = 0
    /\ op = "none" /\ err = "nil"
    /\ IdleFeatures /\ IdleSeed

\* err := x.Merge(y)
DoMerge(x, y) ==
    /\ Len(hist) < 2
    /\ LET r == Merge(Object(x), Object(y))
       IN  /\ A' = IF x = "A" THEN r.a ELSE A
           /\ B' = IF x = "B" THEN r.a ELSE B
           /\ C' = IF x = "C" THEN r.a ELSE C
           /\ err' = r.err
           /\ hist' = Append(hist, << x, y, r.err >>)
    /\ op' = "Merge"
    /\ pre' = [ A |-> A, B |-> B, C |-> C ]
    /\ UNCHANGED << out, feats, isSorted, genome, mask, seed, orig,
                    meetGap, disk, loaded, pmKeepers, pmCandidates,
                    fileLines, reader >>

NextMerge == \E x \in Objects, y \in Objects : DoMerge(x, y)

SpecMerge == InitMerge /\ [][NextMerge]_vars

\* the fields Merge combines
Merged(f) ==
    [ Start |-> f.Start, End |-> f.End, Source |-> f.Source, Type |-> f.Type,
      Score |-> f.Score, Strand |-> f.Strand, Phase |-> f.Phase,
      Attributes |-> f.Attributes ]

\* a scalar field after merging a and b, as the claim states it
AgreeOrMissing(x, y, z) == IF x = y THEN z = x ELSE z = "."

\* C5: after a.Merge(b) with equal SeqIds, a spans min(Start)..max(End), each
\* scalar field keeps its value when a and b had the same value and is "."
\* otherwise, the attributes are the keys both had with the same value, and
\* b is unchanged.
C5_MergeEffect ==
    (op = "Merge" /\ err = "nil") =>
        LET call == hist[Len(hist)]
            a0 == pre[call[1]]
            b0 == pre[call[2]]
            a1 == Object(call[1])
            b1 == Object(call[2])
        IN  /\ a1.Start = (IF a0.Start < b0.Start THEN a0.Start ELSE b0.Start)
            /\ a1.End = (IF a0.End > b0.End THEN a0.End ELSE b0.End)
            /\ AgreeOrMissing(a0.Source, b0.Source, a1.Source)
            /\ AgreeOrMissing(a0.Type, b0.Type, a1.Type)
            /\ AgreeOrMissing(a0.Score, b0.Score, a1.Score)
            /\ AgreeOrMissing(a0.Strand, b0.Strand, a1.Strand)
            /\ AgreeOrMissing(a0.Phase, b0.Phase, a1.Phase)
            /\ DOMAIN a1.Attributes =
                 { k \in (DOMAIN a0.Attributes) \cap (DOMAIN b0.Attributes) :
                     a0.Attributes[k] = b0.Attributes[k] }
            /\ \A k \in DOMAIN a1.Attributes : a1.Attributes[k] = a0.Attributes[k]
            /\ (call[1] # call[2]) => b1 = b0

\* C5 witness: A.Merge(B) then A.Merge(C) have widened A, erased its Source and
\* dropped its ID attribute, and left B and C as they were
C5_Witness ==
    /\ op = "Merge" /\ Len(hist) = 2
    /\ hist[1] = << "A", "B", "nil" >> /\ hist[2] = << "A", "C", "nil" >>
    /\ A.End > orig.A.End
    /\ A.Source = "." /\ orig.A.Source = "ensembl"
    /\ DOMAIN A.Attributes = {"Name"} /\ DOMAIN orig.A.Attributes = {"ID", "Name"}
    /\ B = orig.B /\ C = orig.C

\* two successful calls after which the receiver of the second has absorbed
\* all three Features
CombinesAll ==
    /\ Len(hist) = 2
    /\ hist[1][3] = "nil" /\ hist[2][3] = "nil"
    /\ hist[1][1] # hist[1][2] /\ hist[2][1] # hist[2][2]
    /\ { hist[1][1], hist[1][2], hist[2][1], hist[2][2] } = Objects
    /\ hist[2][1] = hist[1][1] \/ hist[2][2] = hist[1][1]

\* C6: every order of two Merge calls that combines A, B and C leaves the final
\* receiver with the same Start, End, scalar fields and Attributes; merging a
\* Feature with itself, or the same operand a second time, changes nothing.
C6_MergeOrderIndependent ==
    /\ CombinesAll =>
         Merged(Object(hist[2][1])) = Merged(merge(merge(orig.A, orig.B), orig.C))
    /\ (op = "Merge" /\ hist[Len(hist)][1] = hist[Len(hist)][2]) =>
         (A = pre.A /\ B = pre.B /\ C = pre.C)
    /\ (Len(hist) = 2 /\ hist[1][1] = hist[2][1] /\ hist[1][2] = hist[2][2]) =>
         (A = pre.A /\ B = pre.B /\ C = pre.C)

\* C6 witness: B.Merge(C) then A.Merge(B), on three Features with three
\* different intervals, has left A spanning all of them
C6_Witness ==
    /\ CombinesAll
    /\ hist[1][1] = "B" /\ hist[1][2] = "C" /\ hist[2][1] = "A" /\ hist[2][2] = "B"
    /\ orig.A.End < orig.B.End /\ orig.B.End < orig.C.End
    /\ A.End = orig.C.End /\ A.Start < orig.B.Start


\* C13: a.Merge(b) returns an error exactly when a.SeqId and b.SeqId differ, and
\* then leaves every field and attribute of a and of b (and of the third
\* Feature) as they were.
C13_MergeDifferentSeqId ==
    op = "Merge" =>
        LET call == hist[Len(hist)]
            a0 == pre[call[1]]
            b0 == pre[call[2]]
        IN  /\ (err = "nil") <=> (a0.SeqId = b0.SeqId)
            /\ (a0.SeqId # b0.SeqId) => (A = pre.A /\ B = pre.B /\ C = pre.C)

\* C13 witness: A.Merge(B) refused for Features on different sequences whose
\* intervals differ, so that a merge would have widened A
C13_Witness ==
    /\ op = "Merge" /\ err # "nil"
    /\ hist[Len(hist)][1] = "A" /\ hist[Len(hist)][2] = "B"
    /\ A.SeqId # B.SeqId /\ A.End < B.End /\ A = pre.A

(***************************************************************************)
(* SpecSeed: Genome.NewSeed.  A string is the sequence of its characters;  *)
(* the byte at offset i of a []byte b is b[i + 1].                         *)
(***************************************************************************)
\* applySeed leaves the scan of a sequence at every position that is a multiple of this
ProgressStep == 5000000

Bases == { "A", "C", "N" }

\* the base strings of length 0..n
RECURSIVE BaseStrings(_)
BaseStrings(n) ==
    IF n = 0 THEN { << >> }
    ELSE LET shorter == BaseStrings(n - 1)
         IN  shorter \cup { Append(b, c) : b \in { x \in shorter : Len(x) = n - 1 }, c \in Bases }

Headers == { "chr1", "chr2" }

Masks == { << "1" >>, << "1", "1" >>, << "1", "_", "1" >>, << "_", "1" >> }

\* NewFastaRec(header): a record without bases
NewFastaRec(header) == [ Header |-> header, Sequence |-> << >> ]

\* FastaRec.Length
Length(r) == Len(r.Sequence)

\* Seed.addSequence(f)
addSequence(gs, f) ==
    LET nfr == NewFastaRec(f.Header)
        offset == Len(gs.Sequence)
    IN  [ gs EXCEPT
            !.Offsets = [ h \in (DOMAIN gs.Offsets) \cup {f.Header} |->
                            IF h = f.Header THEN offset ELSE gs.Offsets[h] ],
            !.Sequences = Append(gs.Sequences, nfr),
            !.Sequence = gs.Sequence \o f.Sequence ]

\* the positions of the mask that are '1', counted from 0
seedPositions(seedmask) ==
    SortInts({ i \in 0..(Len(seedmask) - 1) : seedmask[i + 1] = "1" })

\* gs.Coords[oligo] = append(gs.Coords[oligo], i)
appendCoord(coords, oligo, i) ==
    [ k \in (DOMAIN coords) \cup {oligo} |->
        IF k = oligo
        THEN (IF oligo \in DOMAIN coords THEN Append(coords[oligo], i) ELSE << i >>)
        ELSE coords[k] ]

\* the loop of applySeed over one sequence, from position i
RECURSIVE scanSequence(_, _, _, _, _)
scanSequence(bytes, seedpos, coords, i, maxposn) ==
    IF ~(i < maxposn) THEN [ coords |-> coords, err |-> "nil" ]
    ELSE IF i % ProgressStep = 0 THEN [ coords |-> coords, err |-> "nil" ]
    ELSE IF seedpos = << >> THEN [ coords |-> coords, err |-> "panic" ]
    ELSE IF bytes[i + seedpos[1] + 1] = "N"
    THEN scanSequence(bytes, seedpos, coords, i + 1, maxposn)
    ELSE LET oligo == [ j \in 1..Len(seedpos) |-> bytes[i + seedpos[j] + 1] ]
         IN  scanSequence(bytes, seedpos, appendCoord(coords, oligo, i), i + 1, maxposn)

\* the loop of applySeed over gs.Sequences, from the k-th record
RECURSIVE applyFrom(_, _, _, _)
applyFrom(gs, seedmask, coords, k) ==
    IF k > Len(gs.Sequences) THEN [ coords |-> coords, err |-> "nil" ]
    ELSE LET s == gs.Sequences[k]
             offset == gs.Offsets[s.Header]
             maxposn == offset + Length(s) - Len(seedmask)
             r == scanSequence(gs.Sequence, seedPositions(seedmask), coords, offset, maxposn)
         IN  IF r.err # "nil" THEN r ELSE applyFrom(gs, seedmask, r.coords, k + 1)

\* Seed.applySeed(seed)
applySeed(gs, seedmask) ==
    LET r == applyFrom(gs, seedmask, gs.Coords, 1)
    IN  [ gs |-> [ gs EXCEPT !.Coords = r.coords ], err |-> r.err ]

\* the loop of NewSeed that adds the sequences of the Genome
RECURSIVE addSequences(_, _)
addSequences(gs, seqs) ==
    IF seqs = << >> THEN gs
    ELSE addSequences(addSequence(gs, Head(seqs)), Tail(seqs))

\* Genome.NewSeed(seed)
NewSeed(g, seedmask) ==
    LET gs == [ Mask |-> seedmask, Sequences |-> << >>, Offsets |-> << >>,
                Sequence |-> << >>, Coords |-> << >>, genomeUUID |-> g.UUID ]
    IN  applySeed(addSequences(gs, g.Sequences), seedmask)

\* Seed.GenomeUUID
GenomeUUID(gs) == gs.genomeUUID

\* the fields of Seed that encoding/gob transmits: the exported ones
ExportedFields == { "Mask", "Sequences", "Offsets", "Sequence", "Coords" }

\* enc.Encode(gs): the exported fields and their values
Encode(gs) == [ f \in ExportedFields |-> gs[f] ]

\* dec.Decode(gs) into gs = &Seed{}: the transmitted fields are set, the
\* others keep their zero value
Decode(bytes) == [ f \in DOMAIN NoSeed |-> IF f \in DOMAIN bytes THEN bytes[f] ELSE NoSeed[f] ]

\* the file name WriteAsGob builds: dir + "/" + Mask + "." + GenomeUUID + ".seed.gob"
gobFile(dir, gs) == << dir, gs.Mask, GenomeUUID(gs) >>

\* the directories given to WriteAsGob; os.Create fails in the missing one
Dirs == { "out", "missing" }

\* Seed.WriteAsGob(dir): the disk afterwards, the file name and the error
WriteAsGob(gs, dir, files) ==
    LET file == gobFile(dir, gs)
    IN  IF dir = "missing" THEN [ disk |-> files, file |-> file, err |-> "create" ]
        ELSE [ disk |-> [ f \in (DOMAIN files) \cup {file} |->
                            IF f = file THEN Encode(gs) ELSE files[f] ],
               file |-> file, err |-> "nil" ]

\* SeedFromGob(file)
SeedFromGob(file, files) ==
    IF file \notin DOMAIN files THEN [ gs |-> NoSeed, err |-> "open" ]
    ELSE [ gs |-> Decode(files[file]), err |-> "nil" ]

\* the UUIDs NewGenome gives a Genome
UUIDs == { "u1", "u2" }

\* a line of a FASTA file: a header line ">header", or a line of bases
FastaLines ==
    { [ isHeader |-> TRUE, header |-> h, bases |-> << >> ] : h \in Headers }
    \cup { [ isHeader |-> FALSE, header |-> "", bases |-> b ] : b \in BaseStrings(MaxSeqLen) }

\* the files given to AddFastaFile: one that cannot be opened, and the
\* readable files of up to MaxSeqLines lines (the empty file among them)
FastaFilesGiven ==
    { [ readable |-> FALSE, lines |-> << >> ] }
    \cup { [ readable |-> TRUE, lines |-> l ] :
             l \in UNION { [ 1..n -> FastaLines ] : n \in 0..MaxSeqLines } }

\* the scanner loop of ParseFastaFile from line i on: seqs are the Sequences
\* so far, the last of them being thisSeq, and seqLines the bases read since
\* the last header line
RECURSIVE parseFastaLoop(_, _, _, _)
parseFastaLoop(lines, i, seqs, seqLines) ==
    IF i > Len(lines) THEN [ seqs |-> seqs, seqLines |-> seqLines ]
    ELSE IF lines[i].isHeader
    THEN LET saved == IF Len(seqs) # 0
                      THEN [ seqs EXCEPT ![Len(seqs)].Sequence = seqLines ]
                      ELSE seqs
         IN  parseFastaLoop(lines, i + 1,
                            Append(saved, [ Header |-> lines[i].header, Sequence |-> << >> ]),
                            << >>)
    ELSE parseFastaLoop(lines, i + 1, seqs, seqLines \o lines[i].bases)

\* ParseFastaFile(file): the Sequences and the error; a readable file without
\* a header line leaves thisSeq nil, and thisSeq.Sequence = ... panics
ParseFastaFile(file) ==
    IF ~file.readable THEN [ seqs |-> << >>, err |-> "open" ]
    ELSE LET r == parseFastaLoop(file.lines, 1, << >>, << >>)
         IN  IF r.seqs = << >> THEN [ seqs |-> << >>, err |-> "panic" ]
             ELSE [ seqs |-> [ r.seqs EXCEPT ![Len(r.seqs)].Sequence = r.seqLines ],
                    err |-> "nil" ]

\* what ParseFastaFile returns for the files given to AddFastaFile
ParsedFastaFiles == { ParseFastaFile(file) : file \in FastaFilesGiven }

\* Genome.AddFastaFile(file), parsed being what ParseFastaFile returns for the
\* file: the Genome afterwards and the error
AddFastaFile(g, parsed) ==
    IF parsed.err # "nil" THEN [ g |-> g, err |-> parsed.err ]
    ELSE [ g |-> [ g EXCEPT !.Sequences = @ \o parsed.seqs ], err |-> "nil" ]

InitSeed ==
    /\ \E n \in 0..Cardinality(Headers) :
         genome \in { [ UUID |-> u,
                        Sequences |-> [ i \in 1..n |-> [ Header |-> h[i], Sequence |-> b[i] ] ] ] :
                        u \in UUIDs, h \in [ 1..n -> Headers ],
                        b \in [ 1..n -> BaseStrings(MaxSeqLen) ] }
    /\ mask \in Masks
    /\ seed = NoSeed /\ disk = << >> /\ loaded = NoSeed
    /\ meetGap = 0
    /\ op = "none" /\ err = "nil" /\ pre = NoCall
    /\ IdleFeature /\ IdleFeatures

\* err := genome.AddFastaFile(file), before or after the Seed was made
DoAddFastaFile ==
    /\ err # "panic"
    /\ \E parsed \in ParsedFastaFiles :
         /\ Len(genome.Sequences) + Len(parsed.seqs) <= Cardinality(Headers)
         /\ \E r \in { AddFastaFile(genome, parsed) } : genome' = r.g /\ err' = r.err
    /\ op' = "AddFastaFile"
    /\ UNCHANGED << A, B, C, out, feats, isSorted, mask, seed, pre, hist, orig,
                    meetGap, disk, loaded, pmKeepers, pmCandidates,
                    fileLines, reader >>

\* gs, err := genome.NewSeed(mask)
DoNewSeed ==
    /\ op \in { "none", "AddFastaFile" } /\ seed = NoSeed /\ err # "panic"
    /\ LET r == NewSeed(genome, mask)
       IN  seed' = r.gs /\ err' = r.err
    /\ op' = "NewSeed"
    /\ UNCHANGED << A, B, C, out, feats, isSorted, genome, mask, pre, hist, orig,
                    meetGap, disk, loaded, pmKeepers, pmCandidates,
                    fileLines, reader >>

\* file, err := seed.WriteAsGob(dir)
DoWriteAsGob ==
    /\ seed # NoSeed /\ err # "panic"
    /\ \E dir \in Dirs :
         LET r == WriteAsGob(seed, dir, disk)
         IN  disk' = r.disk /\ err' = r.err
    /\ op' = "WriteAsGob"
    /\ UNCHANGED << A, B, C, out, feats, isSorted, genome, mask, seed, pre, hist, orig,
                    meetGap, loaded, pmKeepers, pmCandidates,
                    fileLines, reader >>

\* loaded, err := SeedFromGob(file), for the file WriteAsGob names in either directory
DoSeedFromGob ==
    /\ seed # NoSeed /\ err # "panic"
    /\ \E dir \in Dirs :
         LET r == SeedFromGob(gobFile(dir, seed), disk)
         IN  loaded' = r.gs /\ err' = r.err
    /\ op' = "SeedFromGob"
    /\ UNCHANGED << A, B, C, out, feats, isSorted, genome, mask, seed, pre, hist, orig,
                    meetGap, disk, pmKeepers, pmCandidates,
                    fileLines, reader >>

NextSeed == DoAddFastaFile \/ DoNewSeed \/ DoWriteAsGob \/ DoSeedFromGob

SpecSeed == InitSeed /\ [][NextSeed]_vars

\* the buffer offset of the k-th sequence of the Genome: the bases before it
RECURSIVE OffsetOf(_, _)
OffsetOf(seqs, k) == IF k = 1 THEN 0 ELSE OffsetOf(seqs, k - 1) + Len(seqs[k - 1].Sequence)

\* the bases of the whole Genome, back to back
AllBases(seqs) == Flatten([ k \in 1..Len(seqs) |-> seqs[k].Sequence ])

\* where position i is held in Coords: the pairs << key, index in the key's list >>
ListsHolding(coords, i) ==
    UNION { { << k, n >> : n \in { m \in 1..Len(coords[k]) : coords[k][m] = i } } :
            k \in DOMAIN coords }

\* C4: after NewSeed(mask), every window start i in [off, off + L - seedLen) of
\* every sequence whose first sampled base is not 'N' occurs in exactly one
\* position list of Coords, the list of the key sampled at i.
C4_SeedIndexComplete ==
    (op = "NewSeed" /\ err = "nil") =>
        LET seedpos == seedPositions(mask)
            bytes == AllBases(genome.Sequences)
        IN  \A k \in 1..Len(genome.Sequences) :
              LET off == OffsetOf(genome.Sequences, k)
                  L == Len(genome.Sequences[k].Sequence)
              IN  \A i \in off..(off + L - Len(mask) - 1) :
                    bytes[i + seedpos[1] + 1] # "N" =>
                      LET oligo == [ j \in 1..Len(seedpos) |-> bytes[i + seedpos[j] + 1] ]
                      IN  \E n \in 1..Len(bytes) :
                            ListsHolding(seed.Coords, i) = { << oligo, n >> }

\* the positions of the window starts of the k-th sequence: [off, off + L - seedLen)
WindowStarts(seqs, k, seedmask) ==
    OffsetOf(seqs, k)..(OffsetOf(seqs, k) + Len(seqs[k].Sequence) - Len(seedmask) - 1)

\* the key sampled at window start i
Sampled(bytes, seedpos, i) == [ j \in 1..Len(seedpos) |-> bytes[i + seedpos[j] + 1] ]

\* C15: the 'N' test is applied to the first sampled base only: a window start
\* whose first sampled base is 'N' is in no list of Coords; a window whose first
\* sampled base is not 'N' but which samples an 'N' later is indexed, under its
\* key, which contains 'N'.
C15_OnlyFirstSampledBaseTested ==
    (op = "NewSeed" /\ err = "nil") =>
        LET seedpos == seedPositions(mask)
            bytes == AllBases(genome.Sequences)
        IN  \A k \in 1..Len(genome.Sequences) :
              \A i \in WindowStarts(genome.Sequences, k, mask) :
                LET oligo == Sampled(bytes, seedpos, i)
                IN  /\ oligo[1] = "N" => ListsHolding(seed.Coords, i) = {}
                    /\ (oligo[1] # "N" /\ "N" \in Range(oligo)) =>
                         \E n \in 1..Len(bytes) :
                           ListsHolding(seed.Coords, i) = { << oligo, n >> }

\* C16: after NewSeed, Seed.Sequence is the bases of the Genome's sequences back
\* to back, and Offsets maps the header of every sequence to the buffer length
\* before that sequence was appended, so that offset + length fits the buffer.
C16_OffsetsAreBufferPositions ==
    op = "NewSeed" =>
        /\ seed.Sequence = AllBases(genome.Sequences)
        /\ \A k \in 1..Len(genome.Sequences) :
             LET s == genome.Sequences[k]
             IN  /\ s.Header \in DOMAIN seed.Offsets
                 /\ seed.Offsets[s.Header] = OffsetOf(genome.Sequences, k)
                 /\ seed.Offsets[s.Header] + Len(s.Sequence) <= Len(seed.Sequence)

\* C17: a Seed reports the UUID of the Genome it was made from, and so does the
\* Seed read back by SeedFromGob from the file WriteAsGob wrote.
C17_GenomeUUIDSurvivesGob ==
    /\ seed # NoSeed => GenomeUUID(seed) = genome.UUID
    /\ (op = "SeedFromGob" /\ err = "nil") =>
         (GenomeUUID(loaded) = GenomeUUID(seed) /\ GenomeUUID(loaded) = genome.UUID)

(***************************************************************************)
(* SpecLine: a GFF3 feature line as text.  A string is the sequence of     *)
(* its characters; NewFeatureFromLine, Feature.String and                  *)
(* AttributesString work on the characters.  The Feature fields that are   *)
(* Go strings are character sequences here.                                *)
(***************************************************************************)
MaxAttrLen == 4      \* longest attributes column of an input line

\* the characters of the lines, in byte order
CharOrder ==
    << "\t", "\n", " ", "+", "-", ".", "0", "1", "2", "3", "4", "5", "6", "7", "8",
       "9", ";", "=", "k", "v", "x" >>

CharRank(c) == CHOOSE i \in 1..Len(CharOrder) : CharOrder[i] = c

\* s < t for Go strings
RECURSIVE StrLess(_, _)
StrLess(s, t) ==
    IF t = << >> THEN FALSE
    ELSE IF s = << >> THEN TRUE
    ELSE IF s[1] = t[1] THEN StrLess(Tail(s), Tail(t))
    ELSE CharRank(s[1]) < CharRank(t[1])

\* the keys of a map after sort.Strings
RECURSIVE SortedKeys(_)
SortedKeys(S) ==
    IF S = {} THEN << >>
    ELSE LET m == CHOOSE x \in S : \A y \in S \ { x } : StrLess(x, y)
         IN  << m >> \o SortedKeys(S \ { m })

\* strings.Split(s, sep) for a separator of one character
RECURSIVE SplitOn(_, _)
SplitOn(s, sep) ==
    LET at == { i \in 1..Len(s) : s[i] = sep }
    IN  IF at = {} THEN << s >>
        ELSE LET i == CHOOSE x \in at : \A y \in at : x <= y
             IN  << SubSeq(s, 1, i - 1) >> \o SplitOn(SubSeq(s, i + 1, Len(s)), sep)

\* strings.SplitN(s, sep, 2)
SplitN2(s, sep) ==
    LET at == { i \in 1..Len(s) : s[i] = sep }
    IN  IF at = {} THEN << s >>
        ELSE LET i == CHOOSE x \in at : \A y \in at : x <= y
             IN  << SubSeq(s, 1, i - 1), SubSeq(s, i + 1, Len(s)) >>

\* strings.Join(list, sep)
RECURSIVE JoinWith(_, _)
JoinWith(list, sep) ==
    IF list = << >> THEN << >>
    ELSE IF Len(list) = 1 THEN list[1]
    ELSE list[1] \o << sep >> \o JoinWith(Tail(list), sep)

IsSpace(c) == c \in { " ", "\t", "\n" }

\* strings.TrimSpace
TrimSpace(s) ==
    LET keep == { i \in 1..Len(s) : ~IsSpace(s[i]) }
    IN  IF keep = {} THEN << >>
        ELSE SubSeq(s, CHOOSE x \in keep : \A y \in keep : x <= y,
                       CHOOSE x \in keep : \A y \in keep : x >= y)

\* strings.TrimSuffix(s, "\n")
TrimNewline(s) ==
    IF s # << >> /\ s[Len(s)] = "\n" THEN SubSeq(s, 1, Len(s) - 1) ELSE s

Digits == << "0", "1", "2", "3", "4", "5", "6", "7", "8", "9" >>

IsDigit(c) == c \in Range(Digits)

DigitValue(c) == (CHOOSE i \in 1..10 : Digits[i] = c) - 1

\* the number a string of digits denotes
RECURSIVE DigitsValue(_)
DigitsValue(s) ==
    IF s = << >> THEN 0
    ELSE 10 * DigitsValue(SubSeq(s, 1, Len(s) - 1)) + DigitValue(s[Len(s)])

\* strconv.ParseInt(s, 10, 64) for numbers far below 2^63: an optional sign,
\* then one digit or more
ParseInt(s) ==
    LET signed == s # << >> /\ s[1] \in { "+", "-" }
        ds == IF signed THEN Tail(s) ELSE s
    IN  IF ds = << >> \/ \E i \in 1..Len(ds) : ~IsDigit(ds[i])
        THEN [ i |-> 0, err |-> "syntax" ]
        ELSE [ i |-> IF signed /\ s[1] = "-" THEN 0 - DigitsValue(ds) ELSE DigitsValue(ds),
               err |-> "nil" ]

\* strconv.Itoa
RECURSIVE Itoa(_)
Itoa(n) ==
    IF n < 0 THEN << "-" >> \o Itoa(0 - n)
    ELSE IF n < 10 THEN << Digits[n + 1] >>
    ELSE Itoa(n \div 10) \o << Digits[(n % 10) + 1] >>

\* m[key] = val on a Go map
MapSet(m, key, val) ==
    [ k \in (DOMAIN m) \cup { key } |-> IF k = key THEN val ELSE m[k] ]

\* the loop of NewFeatureFromLine over the ;-separated attributes
RECURSIVE parseAttributes(_, _)
parseAttributes(attributes, m) ==
    IF attributes = << >> THEN m
    ELSE LET a == Head(attributes)
             subs == SplitN2(TrimSpace(a), "=")
         IN  IF a = << >> THEN parseAttributes(Tail(attributes), m)
             ELSE IF Len(subs) = 2
             THEN parseAttributes(Tail(attributes),
                                  MapSet(m, TrimSpace(subs[1]), TrimSpace(subs[2])))
             ELSE parseAttributes(Tail(attributes), MapSet(m, TrimSpace(subs[1]), << >>))

\* NewFeatureFromLine(line).  A nil map and an empty map are both << >>.
NewFeatureFromLine(line) ==
    LET fields == SplitOn(TrimNewline(line), "\t")
    IN  IF Len(fields) # 8 /\ Len(fields) # 9 THEN [ f |-> Nil, err |-> "fields" ]
        ELSE LET start == ParseInt(fields[4])
                 end == ParseInt(fields[5])
                 splitable == IF Len(fields) = 9 THEN TrimSpace(fields[9]) ELSE << >>
             IN  IF start.err # "nil" THEN [ f |-> Nil, err |-> "Start" ]
                 ELSE IF end.err # "nil" THEN [ f |-> Nil, err |-> "End" ]
                 ELSE [ f |-> [ SeqId |-> fields[1], Source |-> fields[2],
                                Type |-> fields[3], Start |-> start.i, End |-> end.i,
                                Score |-> fields[6], Strand |-> fields[7],
                                Phase |-> fields[8],
                                Attributes |->
                                    IF splitable = << >> THEN << >>
                                    ELSE parseAttributes(SplitOn(splitable, ";"), << >>),
                                LineNumber |-> 0 ],
                        err |-> "nil" ]

\* Feature.AttributesString
AttributesString(f) ==
    LET keys == SortedKeys(DOMAIN f.Attributes)
    IN  JoinWith([ i \in 1..Len(keys) |-> keys[i] \o << "=" >> \o f.Attributes[keys[i]] ],
                 ";")

\* Feature.String
String(f) ==
    JoinWith(<< f.SeqId, f.Source, f.Type, Itoa(f.Start), Itoa(f.End), f.Score,
                f.Strand, f.Phase, AttributesString(f) >>, "\t")

\* the strings of at most n characters of the set cs
RECURSIVE Texts(_, _)
Texts(cs, n) ==
    IF n = 0 THEN { << >> }
    ELSE LET shorter == Texts(cs, n - 1)
         IN  shorter \cup { Append(t, c) : t \in shorter, c \in cs }

\* the attributes columns of the input lines
AttrColumns == Texts({ ";", "=", " ", "k", "v" }, MaxAttrLen)

\* the Start columns of the input lines
StartColumns ==
    { << "1" >>, << "0", "2" >>, << "+", "1" >>, << "-", "2" >>, << "1", "0" >>,
      << "x" >>, << >> }

\* the input lines: eight columns, nine columns, or a column short
Lines ==
    LET front(start) ==
            << << "1" >>, << "x" >>, << "x" >>, start, << "1", "2" >>, << "." >>,
               << "+" >> >>
        texts ==
            { JoinWith(front(start) \o << << "." >> >>, "\t") : start \in StartColumns }
            \cup { JoinWith(front(start), "\t") : start \in StartColumns }
            \cup { JoinWith(front(start) \o << << "." >>, attrs >>, "\t") :
                     start \in StartColumns, attrs \in AttrColumns }
    IN  texts \cup { Append(t, "\n") : t \in texts }

\* the line numbers NewFromScanner gives the feature lines
LineNumbers == { 2, 3 }

InitLine ==
    /\ op = "none" /\ err = "nil"
    /\ pre = [ feats |-> << >>, isSorted |-> FALSE, op |-> "none", err |-> "nil" ]
    /\ meetGap = 0
    /\ IdleFeature /\ IdleFeatures /\ IdleSeed

\* f, err := NewFeatureFromLine(line)
DoNewFeatureFromLine ==
    /\ op = "none"
    /\ \E line \in Lines :
         \E r \in { NewFeatureFromLine(line) } :
            A' = r.f /\ err' = r.err /\ orig' = line
    /\ op' = "NewFeatureFromLine"
    /\ UNCHANGED << B, C, out, feats, isSorted, genome, mask, seed, pre, hist,
                    meetGap, disk, loaded, pmKeepers, pmCandidates,
                    fileLines, reader >>

\* NewFromScanner on a feature line: NewFeatureFromLine, then f.LineNumber = lctr
DoNewFromScanner ==
    /\ op = "none"
    /\ \E line \in Lines, lctr \in LineNumbers :
         \E r \in { NewFeatureFromLine(line) } :
            /\ A' = IF r.err = "nil" THEN [ r.f EXCEPT !.LineNumber = lctr ] ELSE r.f
            /\ err' = r.err /\ orig' = line
    /\ op' = "NewFromScanner"
    /\ UNCHANGED << B, C, out, feats, isSorted, genome, mask, seed, pre, hist,
                    meetGap, disk, loaded, pmKeepers, pmCandidates,
                    fileLines, reader >>

\* g, err := NewFeatureFromLine(f.String()); out holds f.String() and g.String()
DoReparse ==
    /\ op \in { "NewFeatureFromLine", "NewFromScanner" } /\ err = "nil"
    /\ \E r \in { NewFeatureFromLine(String(A)) } :
         /\ B' = r.f /\ err' = r.err
         /\ out' = << String(A), IF r.err = "nil" THEN String(r.f) ELSE << >> >>
    /\ op' = "Reparse"
    /\ UNCHANGED << A, C, feats, isSorted, genome, mask, seed, pre, hist, orig,
                    meetGap, disk, loaded, pmKeepers, pmCandidates,
                    fileLines, reader >>

NextLine == DoNewFeatureFromLine \/ DoNewFromScanner \/ DoReparse

SpecLine == InitLine /\ [][NextLine]_vars

\* C20: for a Feature parsed from a GFF3 line, parsing its String() succeeds
\* and gives a Feature with the same SeqId, Source, Type, Start, End, Score,
\* Strand, Phase and LineNumber and the same attribute key/value pairs, and the
\* String() of that Feature is the same string.
C20_StringRoundTrip ==
    op = "Reparse" =>
        /\ err = "nil"
        /\ \A fld \in { "SeqId", "Source", "Type", "Start", "End", "Score", "Strand",
                        "Phase", "LineNumber" } : B[fld] = A[fld]
        /\ B.Attributes = A.Attributes
        /\ out[2] = out[1]

(***************************************************************************)
(* SpecView: Features.BySeqId and Features.Clone on objects.  The Feature  *)
(* at position i of the source list is the object i; the objects Clone     *)
(* creates are numbered after them and their values are kept in hist.  out *)
(* is what the call returned: for each key the list of objects of one      *)
(* Features.  A write through a returned Features sets Score of one of     *)
(* its objects.                                                            *)
(***************************************************************************)
\* Features.BySeqId: the loop appends the pointer f to the entry of f.SeqId
RECURSIVE BySeqIdRefs(_, _, _)
BySeqIdRefs(list, i, m) ==
    IF i > Len(list) THEN [ m |-> m, err |-> "nil" ]
    ELSE IF IsNil(list[i]) THEN [ m |-> m, err |-> "panic" ]
    ELSE LET s == list[i].SeqId
             entry == IF s \in DOMAIN m THEN m[s] ELSE << >>
         IN  BySeqIdRefs(list, i + 1,
                         [ k \in (DOMAIN m) \cup { s } |->
                             IF k = s THEN Append(entry, i) ELSE m[k] ])

\* Features.Clone that appends the pointers of the source
CloneRefs_sharesFeatures(list) ==
    IF \E i \in 1..Len(list) : IsNil(list[i])
    THEN [ refs |-> << >>, objs |-> << >>, err |-> "panic" ]
    ELSE [ refs |-> [ i \in 1..Len(list) |-> i ], objs |-> << >>, err |-> "nil" ]

\* Features.Clone: every Feature is cloned into a new object
CloneRefs(list) ==
    IF \E i \in 1..Len(list) : IsNil(list[i])
    THEN [ refs |-> << >>, objs |-> << >>, err |-> "panic" ]
    ELSE [ refs |-> [ i \in 1..Len(list) |-> Len(list) + i ],
           objs |-> [ i \in 1..Len(list) |-> Clone(list[i]) ],
           err |-> "nil" ]

\* the collections: feature lines of both SeqIds on a few intervals
ViewIntervals == { iv \in Intervals(MaxCoord) : iv[2] <= 2 }

ViewLists(n) ==
    { [ i \in 1..n |-> LineFeature(c[i][1], c[i][2], i) ] :
        c \in [ 1..n -> SeqIds \X ViewIntervals ] }

InitView ==
    /\ \E n \in 0..MaxFeatures : feats \in ViewLists(n)
    /\ isSorted = FALSE
    /\ meetGap = 0
    /\ op = "none" /\ err = "nil" /\ pre = NoCall
    /\ IdleFeature /\ IdleSeed /\ IdleLoop /\ IdleReader

\* m := fs.BySeqId()
DoBySeqId ==
    /\ op \in { "none", "Sort" } /\ err # "panic"
    /\ \E r \in { BySeqIdRefs(feats, 1, << >>) } :
         out' = r.m /\ err' = r.err
    /\ op' = "BySeqId"
    /\ pre' = [ feats |-> feats, isSorted |-> isSorted, op |-> op, err |-> err ]
    /\ UNCHANGED << A, B, C, feats, isSorted, genome, mask, seed, hist, orig,
                    meetGap, disk, loaded, pmKeepers, pmCandidates,
                    fileLines, reader >>

\* nfs := fs.Clone()
DoClone ==
    /\ op \in { "none", "Sort" } /\ err # "panic"
    /\ \E r \in { CloneRefs(feats) } :
         /\ out' = [ k \in { "Clone" } |-> r.refs ]
         /\ hist' = r.objs /\ err' = r.err
    /\ op' = "Clone"
    /\ pre' = [ feats |-> feats, isSorted |-> isSorted, op |-> op, err |-> err ]
    /\ UNCHANGED << A, B, C, feats, isSorted, genome, mask, seed, orig,
                    meetGap, disk, loaded, pmKeepers, pmCandidates,
                    fileLines, reader >>

\* m[k].Features[j].Score = "5" on what BySeqId or Clone returned; orig
\* records the object written
DoWriteThrough ==
    /\ op \in { "BySeqId", "Clone" } /\ err = "nil"
    /\ \E k \in DOMAIN out : \E j \in 1..Len(out[k]) :
         LET ref == out[k][j]
         IN  /\ orig' = << ref >>
             /\ IF ref <= Len(feats)
                THEN feats' = [ feats EXCEPT ![ref].Score = "5" ] /\ UNCHANGED hist
                ELSE /\ hist' = [ hist EXCEPT ![ref - Len(feats)].Score = "5" ]
                     /\ UNCHANGED feats
    /\ op' = IF op = "BySeqId" THEN "BySeqId, write" ELSE "Clone, write"
    /\ UNCHANGED << A, B, C, out, isSorted, genome, mask, seed, err, pre,
                    meetGap, disk, loaded, pmKeepers, pmCandidates,
                    fileLines, reader >>

NextView == DoSort \/ DoBySeqId \/ DoClone \/ DoWriteThrough

SpecView == InitView /\ [][NextView]_vars

\* the object a reference names
Deref(ref) == IF ref <= Len(feats) THEN feats[ref] ELSE hist[ref - Len(feats)]

\* how often a reference occurs in the entries of a returned map
RefCount(m, ref) ==
    LET S == { kj \in (DOMAIN m) \X (1..Len(feats)) :
                 kj[2] <= Len(m[kj[1]]) /\ m[kj[1]][kj[2]] = ref }
    IN  Cardinality(S)

\* C21: BySeqId returns one entry per SeqId present; the entry of s lists the
\* collection's Features of SeqId s, the same objects, in their order; every
\* Feature is in exactly one entry once; a write through an entry shows in the
\* source.  Clone returns as many Features with the same values, none of them
\* an object of the source, and a write through the clone leaves the source
\* as it was.
C21_BySeqIdSharesCloneDoesNot ==
    /\ (op = "BySeqId" /\ err = "nil") =>
          /\ DOMAIN out = SeqIdsOf(feats)
          /\ \A s \in DOMAIN out :
               out[s] = SelectSeq([ i \in 1..Len(feats) |-> i ],
                                  LAMBDA i : feats[i].SeqId = s)
          /\ \A i \in 1..Len(feats) : RefCount(out, i) = 1
    /\ op = "BySeqId, write" =>
          /\ orig[1] <= Len(feats)
          /\ feats[orig[1]].Score = "5"
          /\ \A i \in 1..Len(feats) : i # orig[1] => feats[i] = pre.feats[i]
    /\ (op = "Clone" /\ err = "nil") =>
          /\ Len(out["Clone"]) = Len(feats)
          /\ \A j \in 1..Len(feats) :
               /\ out["Clone"][j] > Len(feats)
               /\ Deref(out["Clone"][j]) = feats[j]
          /\ \A i, j \in 1..Len(feats) : i # j => out["Clone"][i] # out["Clone"][j]
    /\ op = "Clone, write" =>
          /\ feats = pre.feats
          /\ Deref(orig[1]).Score = "5"

\* BySeqId on Features of both SeqIds, interleaved, then a write through the
\* entry of "2"
C21_Witness ==
    /\ op = "BySeqId, write" /\ Len(feats) = 3
    /\ feats[1].SeqId = "2" /\ feats[2].SeqId = "1" /\ feats[3].SeqId = "2"
    /\ out["2"] = << 1, 3 >> /\ orig = << 3 >>

(***************************************************************************)
(* SpecSelect: KeepBySeqId and DeleteBySeqId with what they return, on a   *)
(* collection and on its clone, and ApplySelector.  feats is the           *)
(* collection, hist the Feature list of its clone, out the string lists    *)
(* returned, orig the pattern or the Selector of the call.                 *)
(***************************************************************************)
\* the patterns of the calls: "3" matches no SeqId, "(" does not compile
SelectPatterns == Patterns \cup { "3" }

\* the strings KeepBySeqId (kept) and DeleteBySeqId (deleted) return: the
\* keys of the BySeqId map that match, in the order the range visits them
matchedKeys(pattern, visit) == SelectSeq(visit, LAMBDA k : MatchString(pattern, k))

\* a first loop of KeepBySeqId that deletes no key
keptKeys_keepsAll(list, pattern) == SeqIdsOf(list)

\* the keys left in the map after the first loop of KeepBySeqId
keptKeys(list, pattern) == { x \in SeqIdsOf(list) : MatchString(pattern, x) }

\* the keys left in the map after the first loop of DeleteBySeqId
survivingKeys(list, pattern) == { x \in SeqIdsOf(list) : ~MatchString(pattern, x) }

\* selectBySeqId that hands the error of the call on, and ApplySelector that
\* returns it
ApplySelector_returnsError(list, sorted, sel, order) ==
    IF sel.Subject # "seqid" THEN [ feats |-> list, isSorted |-> sorted, err |-> "subject" ]
    ELSE IF sel.Operation = "keep"
    THEN LET r == KeepBySeqId(list, sel.Pattern, order)
         IN  [ feats |-> r.feats, isSorted |-> sorted, err |-> r.err ]
    ELSE IF sel.Operation = "delete"
    THEN LET r == DeleteBySeqId(list, sel.Pattern, order)
         IN  [ feats |-> r.feats, isSorted |-> IF r.err = "nil" THEN FALSE ELSE sorted,
               err |-> r.err ]
    ELSE [ feats |-> list, isSorted |-> sorted, err |-> "operation" ]

\* Features.ApplySelector with selectBySeqId: the error of selectBySeqId is
\* wrapped and dropped, nil is returned
ApplySelector(list, sorted, sel, order) ==
    IF sel.Subject # "seqid" THEN [ feats |-> list, isSorted |-> sorted, err |-> "subject" ]
    ELSE IF sel.Operation = "keep"
    THEN LET r == KeepBySeqId(list, sel.Pattern, order)
         IN  [ feats |-> r.feats, isSorted |-> sorted,
               err |-> IF r.err = "panic" THEN "panic" ELSE "nil" ]
    ELSE IF sel.Operation = "delete"
    THEN LET r == DeleteBySeqId(list, sel.Pattern, order)
         IN  [ feats |-> r.feats, isSorted |-> IF r.err = "nil" THEN FALSE ELSE sorted,
               err |-> IF r.err = "panic" THEN "panic" ELSE "nil" ]
    ELSE [ feats |-> list, isSorted |-> sorted, err |-> "nil" ]

\* the Selectors of the calls
Selectors ==
    [ Operation : { "keep", "delete", "drop" }, Subject : { "seqid", "type" },
      Pattern : SelectPatterns ]

\* the keys a Selector leaves in the map
selectedKeys(list, sel) ==
    IF sel.Operation = "keep" THEN keptKeys(list, sel.Pattern)
    ELSE survivingKeys(list, sel.Pattern)

InitSelect ==
    /\ \E n \in 0..MaxFeatures : feats \in ViewLists(n)
    /\ isSorted \in BOOLEAN
    /\ meetGap = 0
    /\ op = "none" /\ err = "nil" /\ pre = NoCall
    /\ IdleFeature /\ IdleSeed /\ IdleLoop /\ IdleReader

\* c := fs.Clone(); kept, err := fs.KeepBySeqId(p); deleted, _ := c.DeleteBySeqId(p)
DoKeepAndDelete ==
    /\ op = "none"
    /\ \E pattern \in SelectPatterns :
         /\ orig' = << pattern >>
         /\ IF Compiles(pattern)
            THEN \E visitK \in MapOrders(SeqIdsOf(feats)),
                    visitD \in MapOrders(SeqIdsOf(feats)),
                    orderK \in MapOrders(keptKeys(feats, pattern)),
                    orderD \in MapOrders(survivingKeys(feats, pattern)) :
                   /\ feats' = KeepBySeqId(feats, pattern, orderK).feats
                   /\ hist' = DeleteBySeqId(feats, pattern, orderD).feats
                   /\ out' = << matchedKeys(pattern, visitK), matchedKeys(pattern, visitD) >>
                   /\ err' = "nil"
            ELSE /\ err' = KeepBySeqId(feats, pattern, << >>).err
                 /\ out' = << << >>, << >> >>
                 /\ hist' = feats
                 /\ UNCHANGED feats
    /\ op' = "KeepBySeqId, DeleteBySeqId"
    /\ pre' = [ feats |-> feats, isSorted |-> isSorted, op |-> op, err |-> err ]
    /\ UNCHANGED << A, B, C, isSorted, genome, mask, seed,
                    meetGap, disk, loaded, pmKeepers, pmCandidates,
                    fileLines, reader >>

\* err := fs.ApplySelector(sel)
DoApplySelector ==
    /\ op = "none"
    /\ \E sel \in Selectors :
         /\ orig' = << sel >>
         /\ \E order \in IF Compiles(sel.Pattern)
                         THEN MapOrders(selectedKeys(feats, sel)) ELSE { << >> } :
              \E r \in { ApplySelector(feats, isSorted, sel, order) } :
                 feats' = r.feats /\ isSorted' = r.isSorted /\ err' = r.err
    /\ op' = "ApplySelector"
    /\ pre' = [ feats |-> feats, isSorted |-> isSorted, op |-> op, err |-> err ]
    /\ UNCHANGED << A, B, C, out, genome, mask, seed, hist,
                    meetGap, disk, loaded, pmKeepers, pmCandidates,
                    fileLines, reader >>

NextSelect == DoKeepAndDelete \/ DoApplySelector

SpecSelect == InitSelect /\ [][NextSelect]_vars

\* C22: with a pattern that compiles, KeepBySeqId leaves the Features whose
\* SeqId matches and DeleteBySeqId those whose SeqId does not, each SeqId's
\* Features in their order; both return the matching SeqIds once each; the two
\* results together hold every Feature of the collection exactly once.
C22_KeepAndDeleteComplement ==
    (op = "KeepBySeqId, DeleteBySeqId" /\ Compiles(orig[1])) =>
        LET p == orig[1]
            matched == { x \in SeqIdsOf(pre.feats) : MatchString(p, x) }
        IN  /\ err = "nil"
            /\ \A s \in SeqIds :
                 /\ BySeqId(feats, s) = IF MatchString(p, s) THEN BySeqId(pre.feats, s)
                                        ELSE << >>
                 /\ BySeqId(hist, s) = IF MatchString(p, s) THEN << >>
                                       ELSE BySeqId(pre.feats, s)
            /\ \A i \in 1..2 : Range(out[i]) = matched /\ Len(out[i]) = Cardinality(matched)
            /\ \A f \in Range(pre.feats) \cup Range(feats) \cup Range(hist) :
                 Occurrences(feats, f) + Occurrences(hist, f) = Occurrences(pre.feats, f)

\* a collection with Features of both SeqIds interleaved, split by a pattern
\* that matches one of them
C22_Witness ==
    /\ op = "KeepBySeqId, DeleteBySeqId" /\ orig = << "2" >>
    /\ Len(pre.feats) = 3 /\ Len(feats) = 2 /\ Len(hist) = 1
    /\ pre.feats[2].SeqId = "1" /\ out = << << "2" >>, << "2" >> >>

\* C29: ApplySelector returns an error when the Subject is not seqid, when the
\* Operation is neither keep nor delete and when the Pattern does not compile,
\* and leaves the collection as it was in these cases.
C29_ApplySelectorReportsFailure ==
    op = "ApplySelector" =>
        LET sel == orig[1]
            applicable == /\ sel.Subject = "seqid"
                          /\ sel.Operation \in { "keep", "delete" }
                          /\ Compiles(sel.Pattern)
        IN  /\ ~applicable => (err # "nil" /\ feats = pre.feats /\ isSorted = pre.isSorted)
            /\ applicable => err = "nil"

(***************************************************************************)
(* SpecSelector: selector.NewFromString, NewFromStrings and                *)
(* Selector.String on the characters of the string.  A is the Selector     *)
(* returned, out the list NewFromStrings returned, orig the argument.      *)
(***************************************************************************)
MaxSelectorLen == 5  \* longest string given to NewFromString

\* strings.SplitN(s, ":", 3)
SplitN3(s, sep) ==
    LET first == SplitN2(s, sep)
    IN  IF Len(first) = 1 THEN first ELSE << first[1] >> \o SplitN2(first[2], sep)

\* the zero Selector
NoSelector == [ Operation |-> << >>, Subject |-> << >>, Pattern |-> << >> ]

\* NewFromString that splits at every colon
NewFromString_splitsAll(s) ==
    LET ss == SplitOn(s, ":")
    IN  IF Len(ss) # 3 THEN [ sel |-> NoSelector, err |-> "incorrectly formed" ]
        ELSE [ sel |-> [ Operation |-> ss[1], Subject |-> ss[2], Pattern |-> ss[3] ],
               err |-> "nil" ]

\* selector.NewFromString
NewFromString(s) ==
    LET ss == SplitN3(s, ":")
    IN  IF Len(ss) # 3 THEN [ sel |-> NoSelector, err |-> "incorrectly formed" ]
        ELSE [ sel |-> [ Operation |-> ss[1], Subject |-> ss[2], Pattern |-> ss[3] ],
               err |-> "nil" ]

\* selector.NewFromStrings: the loop stops at the first string it cannot split
RECURSIVE NewFromStrings(_, _)
NewFromStrings(selects, sels) ==
    IF selects = << >> THEN [ sels |-> sels, err |-> "nil" ]
    ELSE LET ss == SplitN3(Head(selects), ":")
         IN  IF Len(ss) # 3 THEN [ sels |-> sels, err |-> "incorrectly formed" ]
             ELSE NewFromStrings(Tail(selects),
                                 Append(sels, [ Operation |-> ss[1], Subject |-> ss[2],
                                                Pattern |-> ss[3] ]))

\* Selector.String
SelectorString(sel) == sel.Operation \o << ":" >> \o sel.Subject \o << ":" >> \o sel.Pattern

\* the strings given to NewFromString, and the shorter ones given in lists
SelectorTexts == Texts({ ":", "k", "^" }, MaxSelectorLen)

ListedTexts == Texts({ ":", "k" }, MaxSelectorLen - 2)

InitSelector ==
    /\ op = "none" /\ err = "nil" /\ pre = NoCall
    /\ meetGap = 0
    /\ IdleFeature /\ IdleFeatures /\ IdleSeed

\* sel, err := selector.NewFromString(s)
DoNewFromString ==
    /\ op = "none"
    /\ \E s \in SelectorTexts :
         \E r \in { NewFromString(s) } :
            A' = r.sel /\ err' = r.err /\ orig' = s
    /\ op' = "NewFromString"
    /\ UNCHANGED << B, C, out, feats, isSorted, genome, mask, seed, pre, hist,
                    meetGap, disk, loaded, pmKeepers, pmCandidates,
                    fileLines, reader >>

\* sels, err := selector.NewFromStrings(selects)
DoNewFromStrings ==
    /\ op = "none"
    /\ \E n \in 0..2 : \E selects \in [ 1..n -> ListedTexts ] :
         \E r \in { NewFromStrings(selects, << >>) } :
            out' = r.sels /\ err' = r.err /\ orig' = selects
    /\ op' = "NewFromStrings"
    /\ UNCHANGED << A, B, C, feats, isSorted, genome, mask, seed, pre, hist,
                    meetGap, disk, loaded, pmKeepers, pmCandidates,
                    fileLines, reader >>

NextSelector == DoNewFromString \/ DoNewFromStrings

SpecSelector == InitSelector /\ [][NextSelector]_vars

\* the number of colons of a string
Colons(s) == Cardinality({ i \in 1..Len(s) : s[i] = ":" })

\* C23: NewFromString succeeds exactly on strings with two colons or more;
\* then Operation and Subject hold no colon and Operation, ":", Subject, ":",
\* Pattern is the string, which String() gives back.  NewFromStrings returns
\* for a list of such strings the Selectors NewFromString returns, and an error
\* when one of the strings has fewer colons.
C23_SelectorParse ==
    /\ op = "NewFromString" =>
         /\ err = "nil" <=> Colons(orig) >= 2
         /\ err = "nil" =>
              /\ Colons(A.Operation) = 0 /\ Colons(A.Subject) = 0
              /\ A.Operation \o << ":" >> \o A.Subject \o << ":" >> \o A.Pattern = orig
              /\ SelectorString(A) = orig
    /\ op = "NewFromStrings" =>
         /\ err = "nil" <=> \A i \in 1..Len(orig) : Colons(orig[i]) >= 2
         /\ err = "nil" =>
              /\ Len(out) = Len(orig)
              /\ \A i \in 1..Len(orig) : out[i] = NewFromString(orig[i]).sel

\* a string with three colons and an empty Subject
C23_Witness ==
    /\ op = "NewFromString" /\ err = "nil"
    /\ orig = << "k", ":", ":", "^", ":" >>
    /\ A = [ Operation |-> << "k" >>, Subject |-> << >>, Pattern |-> << "^", ":" >> ]


(***************************************************************************)
(* SpecRead: a FASTA or FASTQ file, given as its lines, opened and read    *)
(* record by record.  A line is a sequence of characters.                  *)
(***************************************************************************)

MaxRecords == 2

\* faHeaderRex `^;(.*)$`, faIdRex `^>(.*)$`, fqHeaderRex `^#(.*)$`
faHeaderRex(line) == line # << >> /\ line[1] = ";"
faIdRex(line) == line # << >> /\ line[1] = ">"
fqHeaderRex(line) == line # << >> /\ line[1] = "#"

\* scanner.Scan() followed by scanner.Text(): the next line, or no line and the
\* empty text at the end of the file
Scan(f, ls) ==
    IF f.pos < Len(ls)
    THEN [ f |-> [ f EXCEPT !.pos = f.pos + 1 ], ok |-> TRUE, text |-> ls[f.pos + 1] ]
    ELSE [ f |-> f, ok |-> FALSE, text |-> << >> ]

\* a nil *FastaRec or *FastqRec
NilRec == [ nil |-> TRUE ]

\* OpenFastaFile: the for loop over the header lines, up to the first Id line
RECURSIVE OpenFastaFile(_, _)
OpenFastaFile(f, ls) ==
    LET s == Scan(f, ls)
    IN  IF ~s.ok THEN [ f |-> f, err |-> "nil" ]
        ELSE IF faHeaderRex(s.text)
             THEN OpenFastaFile([ s.f EXCEPT !.Headers = Append(@, s.text) ], ls)
        ELSE IF faIdRex(s.text)
             THEN [ f |-> [ s.f EXCEPT !.nextRecId = s.text ], err |-> "nil" ]
        ELSE [ f |-> s.f, err |-> "problematic line" ]

\* FastaFile.Next: the for loop that collects the sequence lines of thisRec
RECURSIVE fastaNextLoop(_, _, _, _)
fastaNextLoop(f, ls, thisRec, seq) ==
    LET s == Scan(f, ls)
    IN  IF ~s.ok
        THEN [ f |-> [ f EXCEPT !.EOF = TRUE ],
               rec |-> [ thisRec EXCEPT !.Sequence = seq ] ]
        ELSE IF faIdRex(s.text)
             THEN [ f |-> [ s.f EXCEPT !.nextRecId = s.text ],
                    rec |-> [ thisRec EXCEPT !.Sequence = seq ] ]
        ELSE fastaNextLoop(s.f, ls, thisRec, seq \o s.text)

\* FastaFile.Next(): the FastaFile afterwards and the record returned
FastaNext(f, ls) ==
    IF f.EOF THEN [ f |-> f, rec |-> NilRec ]
    ELSE fastaNextLoop([ f EXCEPT !.recCtr = f.recCtr + 1 ], ls,
                       NewFastaRec(f.nextRecId), << >>)

\* FastaFile.ReadAll(): Next until it returns nil
RECURSIVE FastaReadAll(_, _, _)
FastaReadAll(f, ls, seqs) ==
    LET r == FastaNext(f, ls)
    IN  IF r.rec = NilRec THEN [ f |-> r.f, seqs |-> seqs ]
        ELSE FastaReadAll(r.f, ls, Append(seqs, r.rec))

\* FastaFile.RecordCount() and FastqFile.RecordCount()
RecordCount(f) == f.recCtr

\* NewFastqRec()
NewFastqRec == [ Id |-> << >>, Bases |-> << >>, Qualities |-> << >> ]

\* OpenFastqFile: the for loop over the header lines; the first other line is
\* the Id line of the first record
RECURSIVE OpenFastqFile(_, _)
OpenFastqFile(f, ls) ==
    LET s == Scan(f, ls)
    IN  IF ~s.ok THEN [ f |-> f, err |-> "nil" ]
        ELSE IF fqHeaderRex(s.text)
             THEN OpenFastqFile([ s.f EXCEPT !.Headers = Append(@, s.text) ], ls)
        ELSE [ f |-> [ s.f EXCEPT !.nextRecId = s.text ], err |-> "nil" ]

\* FastqFile.Next(): the FastqFile afterwards and the record returned
FastqNext(f, ls) ==
    IF f.EOF THEN [ f |-> f, rec |-> NilRec ]
    ELSE LET f1 == [ f EXCEPT !.recCtr = f.recCtr + 1 ]
             sId == Scan(f1, ls)
             id == IF f1.nextRecId # << >> THEN f1.nextRecId ELSE sId.text
             f2 == IF f1.nextRecId # << >> THEN [ f1 EXCEPT !.nextRecId = << >> ]
                   ELSE sId.f
             sBases == Scan(f2, ls)
             sPlus == Scan(sBases.f, ls)
             sQual == Scan(sPlus.f, ls)
         IN  [ f |-> sQual.f,
               rec |-> [ NewFastqRec EXCEPT !.Id = id, !.Bases = sBases.text,
                                            !.Qualities = sQual.text ] ]

\* the files read: header lines, then records
FastaHeaderLines == { << ";", "h" >> }
FastaIdLines == { << ">", "a" >>, << ">", "b" >> }
SequenceLines == { << "A", "C" >>, << "G" >> }
FastqHeaderLines == { << "#", "h" >> }
FastqIdLines == { << "@", "a" >>, << "@", "b" >> }
QualityLines == { << "!", "!" >>, << "I" >> }

\* the lines of one FASTA record, and of one FASTQ record
FastaRecords ==
    { << id >> \o body : id \in FastaIdLines,
                         body \in UNION { [ 1..k -> SequenceLines ] : k \in 0..MaxSeqLines } }
FastqRecords ==
    { << id, bases, << "+" >>, quals >> :
        id \in FastqIdLines, bases \in SequenceLines, quals \in QualityLines }

FilesOf(headers, records) ==
    { hs \o Flatten(rs) :
        hs \in { << >> } \cup { << h >> : h \in headers },
        rs \in UNION { [ 1..n -> records ] : n \in 0..MaxRecords } }
FastaFiles == FilesOf(FastaHeaderLines, FastaRecords)
FastqFiles == FilesOf(FastqHeaderLines, FastqRecords)

InitRead ==
    /\ feats = << >> /\ isSorted = FALSE /\ IdleLoop
    /\ IdleFeature /\ IdleSeed
    /\ meetGap = 0
    /\ op = "none" /\ err = "nil" /\ pre = << >>
    /\ fileLines \in FastaFiles \cup FastqFiles
    /\ reader = NoReader

\* f, err := OpenFastaFile(file)
DoOpenFastaFile ==
    /\ op = "none" /\ fileLines \in FastaFiles
    /\ \E r \in { OpenFastaFile(NoReader, fileLines) } :
         reader' = r.f /\ err' = r.err
    /\ op' = "OpenFastaFile"
    /\ UNCHANGED << A, B, C, out, feats, isSorted, genome, mask, seed, pre, hist, orig,
                    meetGap, disk, loaded, pmKeepers, pmCandidates, fileLines >>

\* rec, err := f.Next(); hist collects the records returned
DoFastaNext ==
    /\ op \in { "OpenFastaFile", "FastaFile.Next" } /\ err = "nil"
    /\ Len(hist) < MaxRecords + 2
    /\ \E r \in { FastaNext(reader, fileLines) } :
         reader' = r.f /\ hist' = Append(hist, r.rec)
    /\ op' = "FastaFile.Next"
    /\ UNCHANGED << A, B, C, out, feats, isSorted, genome, mask, seed, err, pre, orig,
                    meetGap, disk, loaded, pmKeepers, pmCandidates, fileLines >>

\* seqs, err := f.ReadAll()
DoFastaReadAll ==
    /\ op \in { "OpenFastaFile", "FastaFile.Next" } /\ err = "nil"
    /\ \E r \in { FastaReadAll(reader, fileLines, << >>) } :
         reader' = r.f /\ out' = r.seqs
    /\ op' = "FastaFile.ReadAll"
    /\ UNCHANGED << A, B, C, feats, isSorted, genome, mask, seed, err, pre, hist, orig,
                    meetGap, disk, loaded, pmKeepers, pmCandidates, fileLines >>

\* f, err := OpenFastqFile(file)
DoOpenFastqFile ==
    /\ op = "none" /\ fileLines \in FastqFiles
    /\ \E r \in { OpenFastqFile(NoReader, fileLines) } :
         reader' = r.f /\ err' = r.err
    /\ op' = "OpenFastqFile"
    /\ UNCHANGED << A, B, C, out, feats, isSorted, genome, mask, seed, pre, hist, orig,
                    meetGap, disk, loaded, pmKeepers, pmCandidates, fileLines >>

\* rec, err := f.Next(); hist collects the records returned
DoFastqNext ==
    /\ op \in { "OpenFastqFile", "FastqFile.Next" } /\ err = "nil"
    /\ Len(hist) < MaxRecords + 2
    /\ \E r \in { FastqNext(reader, fileLines) } :
         reader' = r.f /\ hist' = Append(hist, r.rec)
    /\ op' = "FastqFile.Next"
    /\ UNCHANGED << A, B, C, out, feats, isSorted, genome, mask, seed, err, pre, orig,
                    meetGap, disk, loaded, pmKeepers, pmCandidates, fileLines >>

NextRead ==
    DoOpenFastaFile \/ DoFastaNext \/ DoFastaReadAll \/ DoOpenFastqFile \/ DoFastqNext

SpecRead == InitRead /\ [][NextRead]_vars

\* the records a FASTA file holds: one for each Id line, with the lines up to
\* the next Id line as its sequence
RECURSIVE FastaRecordsOf(_, _)
FastaRecordsOf(ls, i) ==
    IF i > Len(ls) THEN << >>
    ELSE IF ~faIdRex(ls[i]) THEN FastaRecordsOf(ls, i + 1)
    ELSE LET body == { j \in (i + 1)..Len(ls) :
                        \A k \in (i + 1)..j : ~faIdRex(ls[k]) }
         IN  << [ Header |-> ls[i],
                  Sequence |-> Flatten([ j \in 1..Cardinality(body) |-> ls[i + j] ]) ] >>
             \o FastaRecordsOf(ls, i + 1)

\* the records a FASTQ file holds: one for each 4-line block after the headers
FastqRecordsOf(ls) ==
    LET h == Cardinality({ i \in 1..Len(ls) : fqHeaderRex(ls[i]) })
    IN  [ k \in 1..((Len(ls) - h) \div 4) |->
            [ Id |-> ls[h + 4 * k - 3], Bases |-> ls[h + 4 * k - 2],
              Qualities |-> ls[h + 4 * k] ] ]

\* what the k-th call of Next is to return for a file holding the records recs
NthRecord(recs, k) == IF k <= Len(recs) THEN recs[k] ELSE NilRec

\* C24: a FASTA file holding n >= 0 records gives its n records, in file order,
\* with header and concatenated sequence, from the first n calls of Next and nil
\* from every later call; RecordCount is then n; ReadAll returns the records
\* not yet returned, nil when there are none.
C24_FastaNextReturnsTheRecords ==
    op \in { "FastaFile.Next", "FastaFile.ReadAll" } =>
        LET recs == FastaRecordsOf(fileLines, 1)
            n == Len(recs)
        IN  /\ \A k \in 1..Len(hist) : hist[k] = NthRecord(recs, k)
            /\ (Len(hist) >= n \/ op = "FastaFile.ReadAll") => RecordCount(reader) = n
            /\ op = "FastaFile.ReadAll" => out = SubSeq(recs, Len(hist) + 1, n)

\* C24 on the files that hold at least one record
C24_HoldsWithRecords ==
    FastaRecordsOf(fileLines, 1) # << >> => C24_FastaNextReturnsTheRecords

\* C25: a FASTQ file holding n records gives them, in file order, from the first
\* n calls of Next, and nil from every later call.
C25_FastqNextEndsWithNil ==
    op = "FastqFile.Next" =>
        LET recs == FastqRecordsOf(fileLines)
        IN  \A k \in 1..Len(hist) : hist[k] = NthRecord(recs, k)

\* C25 without the calls after the last record
C25_FirstRecordsReturned ==
    op = "FastqFile.Next" =>
        LET recs == FastqRecordsOf(fileLines)
        IN  \A k \in 1..Len(hist) : k <= Len(recs) => hist[k] = recs[k]


(***************************************************************************)
(* SpecScan: gff3.NewFromScanner on a whole input, given as its lines.     *)
(***************************************************************************)

MaxScanLines == 3

\* a nil *Gff3
NilGff3 == [ nil |-> TRUE ]

\* the pattern `^#` of header lines
headerRex(line) == line # << >> /\ line[1] = "#"

\* the pattern `^##gff-version\s+3`
gffVersionRex(line) ==
    LET word == << "#", "#", "g", "f", "f", "-", "v", "e", "r", "s", "i", "o", "n" >>
    IN  /\ Len(line) >= Len(word) + 2
        /\ SubSeq(line, 1, Len(word)) = word
        /\ \E k \in (Len(word) + 1)..(Len(line) - 1) :
              /\ \A j \in (Len(word) + 1)..k : line[j] \in { " ", "\t", "\n", "\f", "\r" }
              /\ line[k + 1] = "3"

\* NewFromScanner: the loop over the lines; lctr lines have been read
RECURSIVE scanLoop(_, _, _, _)
scanLoop(ls, lctr, header, fs) ==
    IF lctr = Len(ls) THEN [ Header |-> header, Features |-> fs, err |-> "nil" ]
    ELSE LET line == TrimNewline(ls[lctr + 1])
         IN  IF headerRex(line)
             THEN scanLoop(ls, lctr + 1,
                           IF line # << "#", "#", "#" >> THEN Append(header, line)
                           ELSE header, fs)
             ELSE LET r == NewFeatureFromLine(line)
                  IN  IF r.err # "nil"
                      THEN [ Header |-> header, Features |-> fs, err |-> r.err ]
                      ELSE scanLoop(ls, lctr + 1, header,
                                    Append(fs, [ r.f EXCEPT !.LineNumber = lctr + 1 ]))

\* NewFromScanner(scanner): the Gff3 and the error returned
NewFromScanner(ls) ==
    LET r == scanLoop(ls, 0, << >>, << >>)
    IN  IF r.err # "nil" THEN [ gff3 |-> NilGff3, err |-> r.err ]
        ELSE IF r.Header = << >> THEN [ gff3 |-> NilGff3, err |-> "ErrNoGff3Headers" ]
        ELSE IF r.Features = << >> THEN [ gff3 |-> NilGff3, err |-> "ErrNoGff3Records" ]
        ELSE IF ~gffVersionRex(r.Header[1]) THEN [ gff3 |-> NilGff3, err |-> "not a gff3" ]
        ELSE [ gff3 |-> [ Header |-> r.Header, Features |-> r.Features ], err |-> "nil" ]

\* the lines of the inputs: header lines, feature lines of eight columns for
\* two sequences, and a line of seven columns
ScanHeaderLines ==
    { << "#", "#", "g", "f", "f", "-", "v", "e", "r", "s", "i", "o", "n", " ", "3" >>,
      << "#", "#", "g", "f", "f", "-", "v", "e", "r", "s", "i", "o", "n", " ", "2" >>,
      << "#", "#", "#" >>,
      << "#", "x" >> }
ScanFeatureLines ==
    { JoinWith(<< << s >>, << "x" >>, << "x" >>, << "1" >>, << "1", "2" >>, << "." >>,
                  << "+" >>, << "." >> >>, "\t") : s \in { "1", "2" } }
ScanLines ==
    ScanHeaderLines \cup ScanFeatureLines
    \cup { JoinWith(<< << "1" >>, << "x" >>, << "x" >>, << "1" >>, << "1", "2" >>,
                       << "." >>, << "+" >> >>, "\t") }

InitScan ==
    /\ feats = << >> /\ isSorted = FALSE /\ IdleLoop
    /\ IdleFeature /\ IdleSeed
    /\ meetGap = 0
    /\ op = "none" /\ err = "nil" /\ pre = << >>
    /\ fileLines \in UNION { [ 1..n -> ScanLines ] : n \in 0..MaxScanLines }
    /\ reader = NoReader

\* gff3, err := NewFromScanner(scanner); out is the *Gff3 returned
DoScan ==
    /\ op = "none"
    /\ \E r \in { NewFromScanner(fileLines) } : out' = r.gff3 /\ err' = r.err
    /\ op' = "NewFromScanner"
    /\ UNCHANGED << A, B, C, feats, isSorted, genome, mask, seed, pre, hist, orig,
                    meetGap, disk, loaded, pmKeepers, pmCandidates, fileLines, reader >>

NextScan == DoScan

SpecScan == InitScan /\ [][NextScan]_vars

\* the numbers of the lines of the input that are not header lines
FeatureLineNumbers(ls) == { i \in 1..Len(ls) : ~headerRex(ls[i]) }

\* the i-th smallest number of a set of numbers
RECURSIVE NthOf(_, _)
NthOf(S, i) ==
    LET m == CHOOSE x \in S : \A y \in S : x <= y
    IN  IF i = 1 THEN m ELSE NthOf(S \ { m }, i - 1)

\* for an accepted input every non-header line became one Feature, in input
\* order, with the number of its line as LineNumber
ScanKeepsEveryFeatureLine ==
    (op = "NewFromScanner" /\ err = "nil") =>
        LET nums == FeatureLineNumbers(fileLines)
        IN  /\ out # NilGff3
            /\ Len(out.Features) = Cardinality(nums)
            /\ \A i \in 1..Cardinality(nums) :
                  LET k == NthOf(nums, i)
                  IN  /\ out.Features[i].LineNumber = k
                      /\ out.Features[i]
                           = [ NewFeatureFromLine(fileLines[k]).f EXCEPT !.LineNumber = k ]

\* C26: NewFromScanner returns an error and no Gff3 for every input that has
\* no header line, or no feature line, or whose very first line is not a
\* '##gff-version 3' line; for an accepted input every non-header line became
\* one Feature, in input order, with the 1-based number of its line as
\* LineNumber.
C26_NewFromScannerRejects ==
    op = "NewFromScanner" =>
        /\ (\/ \A i \in 1..Len(fileLines) : ~headerRex(fileLines[i])
            \/ \A i \in 1..Len(fileLines) : headerRex(fileLines[i])
            \/ fileLines = << >>
            \/ ~gffVersionRex(fileLines[1]))
           => (err # "nil" /\ out = NilGff3)
        /\ ScanKeepsEveryFeatureLine

\* C26 with the first header line that is not '###' in the place of the very
\* first line
C26_FirstKeptHeaderLine ==
    op = "NewFromScanner" =>
        LET kept == SelectSeq(fileLines,
                              LAMBDA l : headerRex(l) /\ l # << "#", "#", "#" >>)
        IN  /\ (\/ kept = << >>
                \/ \A i \in 1..Len(fileLines) : headerRex(fileLines[i])
                \/ ~gffVersionRex(kept[1]))
               => (err # "nil" /\ out = NilGff3)
            /\ ScanKeepsEveryFeatureLine


(***************************************************************************)
(* SpecInsert: insertFeatures(fs1, fs2...) on lists of distinct Features.  *)
(* feats is fs1, hist is fs2 and out the list returned.                    *)
(***************************************************************************)

MaxInserted == 2

\* the i-th Feature of a call, starting at start
InsertOperand(start, i) ==
    [ LineFeature("1", << start, start >>, 1) EXCEPT !.LineNumber = i ]

InitInsert ==
    /\ A = NoFeature /\ B = NoFeature /\ C = NoFeature
    /\ out = << >> /\ orig = << >>
    /\ \E n \in 0..MaxFeatures, m \in 1..MaxInserted :
         \E s1 \in [ 1..n -> 1..MaxCoord ], s2 \in [ 1..m -> 1..MaxCoord ] :
            /\ feats = [ i \in 1..n |-> InsertOperand(s1[i], i) ]
            /\ hist = [ i \in 1..m |-> InsertOperand(s2[i], n + i) ]
    /\ isSorted = FALSE /\ IdleLoop /\ IdleReader
    /\ IdleSeed
    /\ meetGap = 0
    /\ op = "none" /\ err = "nil" /\ pre = << >>

\* fs := insertFeatures(fs1, fs2...)
DoInsertFeatures ==
    /\ op = "none"
    /\ \E r \in { insertFeatures(feats, hist) } : out' = r.fs /\ err' = r.err
    /\ op' = "insertFeatures"
    /\ UNCHANGED << A, B, C, feats, isSorted, genome, mask, seed, pre, hist, orig,
                    meetGap, disk, loaded, pmKeepers, pmCandidates, fileLines, reader >>

NextInsert == DoInsertFeatures

SpecInsert == InitInsert /\ [][NextInsert]_vars

\* a list is in non-decreasing Start order
StartOrdered(list) == \A i \in 1..(Len(list) - 1) : list[i].Start <= list[i + 1].Start

\* C27: insertFeatures(fs1, fs2...) returns a list holding every element of fs1
\* and of fs2 exactly once, in non-decreasing Start order when fs1 is; also
\* when fs1 is empty and when an inserted Start is greater than every Start
\* in the list.
C27_InsertFeaturesKeepsAll ==
    op = "insertFeatures" =>
        /\ Len(out) = Len(feats) + Len(hist)
        /\ \A i \in 1..Len(feats) : Occurrences(out, feats[i]) = 1
        /\ \A i \in 1..Len(hist) : Occurrences(out, hist[i]) = 1
        /\ StartOrdered(feats) => StartOrdered(out)

\* C27 for the calls in which no inserted Start is greater than every Start of fs1
C27_HoldsBelowTheGreatest ==
    (\A i \in 1..Len(hist) : \E j \in 1..Len(feats) : hist[i].Start <= feats[j].Start)
        => C27_InsertFeaturesKeepsAll

\* what insertFeatures does keep: fs1 whole, in its order, and no Feature twice
C27_KeepsFs1 ==
    op = "insertFeatures" =>
        /\ \A i \in 1..Len(feats) : Occurrences(out, feats[i]) = 1
        /\ \A i \in 1..Len(hist) : Occurrences(out, hist[i]) <= 1
        /\ StartOrdered(feats) => StartOrdered(out)


(***************************************************************************)
(* SpecSeed: the positions NewSeed stores in Coords.                       *)
(***************************************************************************)
\* C28: every position p in a list of Seed.Coords starts a window that lies
\* inside one absorbed sequence (off <= p and p + seedLen <= off + L), the key
\* of the list is the bases at p + seedPositions[j], every key is as long as
\* the mask has '1's, and the positions of one list are strictly increasing.
C28_StoredPositionsAreWindows ==
    seed # NoSeed =>
        LET seedpos == seedPositions(mask)
            bytes == AllBases(genome.Sequences)
        IN  \A key \in DOMAIN seed.Coords :
              /\ Len(key) = Len(seedpos)
              /\ \A n \in 1..Len(seed.Coords[key]) :
                    LET p == seed.Coords[key][n]
                    IN  /\ \E k \in 1..Len(genome.Sequences) :
                              /\ OffsetOf(genome.Sequences, k) <= p
                              /\ p + Len(mask) <= OffsetOf(genome.Sequences, k)
                                                    + Len(genome.Sequences[k].Sequence)
                        /\ key = Sampled(bytes, seedpos, p)
                        /\ n > 1 => seed.Coords[key][n - 1] < p

\* no list of Coords ever holds a position: the records NewSeed keeps in
\* Sequences are without bases, so applySeed scans no window
C28_NothingStored == seed.Coords = << >> /\ loaded.Coords = << >>


(***************************************************************************)
(* SpecTree: Gff3.NewTree and TreeNode.Features.  A TreeNode is known by   *)
(* the id it is filed under in Tree.Nodes, a Feature by its position in    *)
(* the Features list of the Gff3.  out is the Tree, hist the list          *)
(* TreeNode.Features returned for the node orig.                           *)
(***************************************************************************)

\* the ID and Parent attributes of the Features: none, or a string; a Parent
\* string is the list of ids strings.Split cuts it into at the commas
TreeIds == { << >>, << "a" >>, << "b" >> }
TreeParents == { << >>, << "a" >>, << "b" >>, << "a", "b" >>, << "c" >> }

\* the Feature of line i with these attributes
TreeFeature(id, parent, i) ==
    [ LineFeature("1", << 1, 1 >>, 1) EXCEPT
        !.Attributes = [ k \in (IF id = << >> THEN {} ELSE { "ID" })
                               \cup (IF parent = << >> THEN {} ELSE { "Parent" }) |->
                           IF k = "ID" THEN id ELSE parent ],
        !.LineNumber = i ]

\* &TreeNode{}
NewTreeNode ==
    [ IdString |-> << >>, Self |-> << >>, ChildLeaves |-> << >>, Parents |-> << >>,
      ChildNodes |-> << >> ]

\* NewTree()
EmptyTree == [ Nodes |-> << >>, Orphans |-> << >> ]

\* Tree.NodeById(id): the Tree afterwards; the node is t.Nodes[id]
NodeById(t, id) ==
    IF id \in DOMAIN t.Nodes THEN t
    ELSE [ t EXCEPT !.Nodes = [ k \in (DOMAIN t.Nodes) \cup { id } |->
                                  IF k = id THEN NewTreeNode ELSE t.Nodes[k] ] ]

\* the loop over the parents of a Feature with an ID, n being its node
RECURSIVE linkParents(_, _, _)
linkParents(t, n, parents) ==
    IF parents = << >> THEN t
    ELSE LET p == << Head(parents) >>
             t1 == NodeById(t, p)
             t2 == [ t1 EXCEPT !.Nodes[n].Parents = Append(@, p) ]
             t3 == [ t2 EXCEPT !.Nodes[p].ChildNodes = Append(@, n) ]
         IN  linkParents(t3, n, Tail(parents))

\* the loop over the parents of a Feature without ID, f being the Feature
RECURSIVE linkLeaf(_, _, _)
linkLeaf(t, f, parents) ==
    IF parents = << >> THEN t
    ELSE LET p == << Head(parents) >>
             t1 == NodeById(t, p)
         IN  linkLeaf([ t1 EXCEPT !.Nodes[p].ChildLeaves = Append(@, f) ], f,
                      Tail(parents))

\* Gff3.NewTree: the loop over g.Features.Features, from the i-th Feature; a
\* nil entry is dereferenced
RECURSIVE newTreeFrom(_, _, _)
newTreeFrom(list, i, t) ==
    IF i > Len(list) THEN [ t |-> t, err |-> "nil" ]
    ELSE IF IsNil(list[i]) THEN [ t |-> t, err |-> "panic" ]
    ELSE LET attrs == list[i].Attributes
         IN  IF "ID" \in DOMAIN attrs
             THEN LET n == attrs["ID"]
                      t1 == NodeById(t, n)
                      t2 == [ t1 EXCEPT !.Nodes[n].Self = Append(@, i) ]
                  IN  newTreeFrom(list, i + 1,
                                  IF "Parent" \in DOMAIN attrs
                                  THEN linkParents(t2, n, attrs["Parent"]) ELSE t2)
             ELSE IF "Parent" \in DOMAIN attrs
             THEN newTreeFrom(list, i + 1, linkLeaf(t, i, attrs["Parent"]))
             ELSE newTreeFrom(list, i + 1, [ t EXCEPT !.Orphans = Append(@, i) ])

\* Gff3.NewTree(): the Tree, or the panic of the loop
NewTree(list) == newTreeFrom(list, 1, EmptyTree)

\* TreeNode.Features() of the node n, called while the calls for the nodes of
\* path are running: a node that is its own descendant is entered again and
\* again until the stack is exhausted
RECURSIVE TreeNodeFeatures(_, _, _)
RECURSIVE childFeatures(_, _, _, _)
TreeNodeFeatures(t, n, path) ==
    IF n \in path THEN [ feats |-> << >>, err |-> "stack overflow" ]
    ELSE childFeatures(t, t.Nodes[n].ChildNodes, path \cup { n },
                       t.Nodes[n].Self \o t.Nodes[n].ChildLeaves)

\* the loop over n.ChildNodes
childFeatures(t, children, path, acc) ==
    IF children = << >> THEN [ feats |-> acc, err |-> "nil" ]
    ELSE LET r == TreeNodeFeatures(t, Head(children), path)
         IN  IF r.err # "nil" THEN r
             ELSE childFeatures(t, Tail(children), path, acc \o r.feats)

InitTree ==
    /\ \E n \in 0..MaxFeatures :
         \E ids \in [ 1..n -> TreeIds ], parents \in [ 1..n -> TreeParents ] :
            feats = [ i \in 1..n |-> TreeFeature(ids[i], parents[i], i) ]
    /\ isSorted = FALSE /\ IdleLoop /\ IdleReader
    /\ IdleFeature /\ IdleSeed
    /\ meetGap = 0
    /\ op = "none" /\ err = "nil" /\ pre = << >>

\* t := g.NewTree()
DoNewTree ==
    /\ op = "none"
    /\ \E r \in { NewTree(feats) } : out' = r.t /\ err' = r.err
    /\ op' = "NewTree"
    /\ UNCHANGED << A, B, C, feats, isSorted, genome, mask, seed, pre, hist, orig,
                    meetGap, disk, loaded, pmKeepers, pmCandidates, fileLines, reader >>

\* the ids NodeById is called with
NodeIds == { << "a" >>, << "b" >>, << "c" >>, << "x" >> }

\* n := t.NodeById(id)
DoNodeById ==
    /\ op \in { "NewTree", "NodeById" } /\ err = "nil"
    /\ \E id \in NodeIds : out' = NodeById(out, id)
    /\ op' = "NodeById"
    /\ UNCHANGED << A, B, C, feats, isSorted, genome, mask, seed, err, pre, hist, orig,
                    meetGap, disk, loaded, pmKeepers, pmCandidates, fileLines, reader >>

\* fs := n.Features() for a node n of the Tree
DoTreeNodeFeatures ==
    /\ op \in { "NewTree", "NodeById" } /\ err = "nil"
    /\ \E n \in DOMAIN out.Nodes :
         \E r \in { TreeNodeFeatures(out, n, {}) } :
            hist' = r.feats /\ err' = r.err /\ orig' = n
    /\ op' = "TreeNode.Features"
    /\ UNCHANGED << A, B, C, out, feats, isSorted, genome, mask, seed, pre,
                    meetGap, disk, loaded, pmKeepers, pmCandidates, fileLines, reader >>

NextTree == DoNewTree \/ DoNodeById \/ DoTreeNodeFeatures

SpecTree == InitTree /\ [][NextTree]_vars

\* the nodes reached from the nodes of S along ChildNodes, S included
RECURSIVE Descendants(_, _)
Descendants(t, S) ==
    LET more == S \cup UNION { { t.Nodes[n].ChildNodes[i] :
                                   i \in 1..Len(t.Nodes[n].ChildNodes) } : n \in S }
    IN  IF more = S THEN S ELSE Descendants(t, more)

\* the Features a node holds itself: Self and ChildLeaves
Held(t, n) ==
    { t.Nodes[n].Self[i] : i \in 1..Len(t.Nodes[n].Self) }
    \cup { t.Nodes[n].ChildLeaves[i] : i \in 1..Len(t.Nodes[n].ChildLeaves) }

\* some node reached from n is its own descendant
OnCycle(t, n) ==
    \E m \in Descendants(t, { n }) :
        m \in Descendants(t, { t.Nodes[m].ChildNodes[i] :
                                 i \in 1..Len(t.Nodes[m].ChildNodes) })

\* node n is in p.ChildNodes as many times as p is in n.Parents
LinksSymmetric(t) ==
    \A n \in DOMAIN t.Nodes, p \in DOMAIN t.Nodes :
        Occurrences(t.Nodes[p].ChildNodes, n) = Occurrences(t.Nodes[n].Parents, p)

\* C30: for the Tree NewTree builds from any list of Features, TreeNode.Features
\* ends on every node, also when a Feature names itself or a descendant as
\* Parent, and returns the node's own Features, its child leaves and the
\* Features of all its descendant nodes; and n is in p.ChildNodes as many times
\* as p is in n.Parents.
C30_TreeNodeFeaturesTerminates ==
    /\ op \in { "NewTree", "NodeById", "TreeNode.Features" } => LinksSymmetric(out)
    /\ op = "TreeNode.Features" =>
          /\ err = "nil"
          /\ { hist[i] : i \in 1..Len(hist) }
               = UNION { Held(out, m) : m \in Descendants(out, { orig }) }

\* C30 for the nodes from which no node that is its own descendant is reached
C30_HoldsWithoutCycle ==
    (op = "TreeNode.Features" /\ OnCycle(out, orig)) \/ C30_TreeNodeFeaturesTerminates

\* the calls that do not end are those that reach a node that is its own descendant
C30_EndsIffNoCycle ==
    op = "TreeNode.Features" => (err = "nil" <=> ~OnCycle(out, orig))

====
